---- MODULE Spec2Model ----
(***************************************************************************)
(* Session lifecycle and concurrency of the camera server:                 *)
(*   - the HLS transcode sessions of app/api/hls.py          (SpecHls)     *)
(*   - the WebRTC live sessions of app/api/webrtc.py         (SpecWebRTC)  *)
(*   - the frame queues of app/core/stream_processor.py      (SpecQueue)   *)
(*   - its reconnection after read failures               (SpecReconnect)  *)
(*   - the camera manager of app/core/camera_manager.py      (SpecCamera)  *)
(*   - the detectors of the processing loop                (SpecPipeline)  *)
(*   - get_jpeg_frame and the frame cache                     (SpecCache)  *)
(*   - connect, disconnect and the workers they leave    (SpecLifecycle)  *)
(*   - viewers' sessions beside the monitor                (SpecViewers)  *)
(*   - the manager under its API and its viewers         (SpecScheduler)  *)
(*   - the shutdown of the manager                        (SpecShutdown)  *)
(* Every coroutine is cut at its awaits: one action is the code that runs  *)
(* between two suspension points of the asyncio event loop.                *)
(***************************************************************************)
EXTENDS Integers, Sequences, FiniteSets, TLC

(***************************************************************************)
(* Bounds of the model and constants of the program                        *)
(***************************************************************************)
\* session ids uuid4() hands out in one run
MaxSessions == 2
\* start_hls_stream: max_retries
max_retries == 5

\* peer connections constructed in one run
MaxPcs == 3
\* peer connections constructed in a run that takes one camera to its limit
MaxViewers == 7
\* WebRTCManager.__init__: max_connections_per_camera
max_connections_per_camera == 5

\* frames a camera delivers and records the pipeline produces in one run
MaxFrames == 32
MaxRecords == 32
\* StreamProcessor.__init__: Queue(maxsize=30)
maxsize == 30
\* failed reconnect attempts followed within one outage
MaxAttempts == 4

\* frames the capture thread is followed ahead of the processing loop
MaxWaiting == 2

\* how far active_cameras is followed outside the range from 0 to the
\* budget
MaxDrift == 1

\* offers of viewers followed beside the monitor of the manager
MaxOffers == 2

\* capture threads and processing loops of earlier calls that are followed
\* while they are still running
MaxEarlier == 1

\* frames a camera shows and seconds that pass while snapshots are followed
MaxShots == 2
MaxClock == 3

\* HTTP requests that can be in flight at once
Tasks == {1, 2}
\* rows of the cameras table, and the ids a request may name
DbCameras == {1, 2}
RequestCameraIds == {1, 2, 3}
SessionIds == 1..MaxSessions
\* cameras viewers ask for, and the peer connections (a track is named after
\* the peer connection whose creation constructed it)
ViewedCameras == {1, 2}
PcIds == 1..MaxViewers

VARIABLES
    \* app/api/hls.py, module state
    active_processes,        \* keys of active_processes
    hls_sessions,            \* session id -> session record
    camera_connections,      \* camera id -> list of session ids
    active_camera_streams,   \* camera id -> session id
    \* the world hls.py acts on
    proc,                    \* session id -> state of its ffmpeg process
    session_dirs,            \* session ids whose segment directory exists
    playlists,               \* session ids whose index.m3u8 exists
    access_files,            \* session ids whose .access file exists
    next_session,            \* the next fresh uuid
    task,                    \* request -> where its handler stands
    \* history
    spawned,                 \* session id -> camera its process was spawned for (0: none)
    last_spawned,            \* camera id -> session of the last process spawned for it (0: none)
    started_ok,              \* session ids a start request has returned as a success
    \* time and the tasks hls.py leaves behind
    now,                     \* time.time(), in periods of the sweep
    output_read,             \* session ids whose read_ffmpeg_output has ended
    startup_done             \* main.py's startup_event has run

hlsVars == <<active_processes, hls_sessions, camera_connections,
             active_camera_streams, proc, session_dirs, playlists,
             access_files, next_session, task, spawned, last_spawned,
             now, output_read, startup_done,
             started_ok>>

VARIABLES
    \* app/api/webrtc.py, WebRTCManager and its tracks
    peer_connections,        \* camera id -> list of peer connections
    camera_tracks,           \* camera id -> track
    conn,                    \* peer connection -> its state and its close handler
    track,                   \* track -> _ref_count, _running
    next_pc,                 \* the next RTCPeerConnection to be constructed
    webrtc_lock              \* WebRTCManager._lock: its holder and the tasks
                             \* waiting for it, first come first

webrtcVars == <<peer_connections, camera_tracks, conn, track, next_pc,
                webrtc_lock>>

VARIABLES
    \* app/core/stream_processor.py, one StreamProcessor
    sp,                      \* its flags, device handle, latest frames, the
                             \* frames that the newest record of the processed
                             \* queue and latest_processed_frame were made from,
                             \* and how many capture threads and _process_frames
                             \* tasks of earlier calls are still running
    raw_frame_queue,         \* frames captured, oldest first
    processed_frame_queue,   \* records processed, oldest first
    capture_thread,          \* where _capture_frames_thread stands
    process_task,            \* where the _process_frames task stands
    disc,                    \* a disconnect() in progress and who called it
    reconnect_task,          \* where the _attempt_reconnect task stands
    next_frame,              \* the next frame the camera delivers
    next_record,             \* the next record the pipeline produces
    \* history
    ever_connected,          \* a connect() of this run has opened the device
    overflow,                \* the raw push that last met a full queue
    since_attempt,           \* seconds slept since the last connect attempt
    reconnect_delays         \* delays before the failed attempts of this outage

spVars == <<sp, raw_frame_queue, processed_frame_queue, capture_thread,
            process_task, disc, reconnect_task, next_frame, next_record,
            ever_connected, overflow, since_attempt, reconnect_delays>>

VARIABLES
    camera_manager,   \* CameraManager: cameras (the keys in insertion order),
                      \* processor (the StreamProcessor of each key),
                      \* cameras_in_use, active_cameras, lock (its holder),
                      \* connection_tasks
    enabled_cameras,  \* the cameras enabled in the database
    monitor,          \* _background_monitor_task: where it is in its tick
    call,             \* the manager method each caller is suspended in
    evicted_in_use,   \* history: the first camera the monitor removed while
                      \* it was in use, 0 when none
    refused_add       \* history: the first camera add_camera left idle with a
                      \* slot free and no connection failure, 0 when none

cmVars == <<camera_manager, enabled_cameras, monitor, call, evicted_in_use,
            refused_add>>

VARIABLES
    pipeline_result   \* what the last _process_frame_pipeline returned: the
                      \* detectors drawn on the frame, the keys of results,
                      \* and the detector whose failure was logged

pipeVars == <<pipeline_result>>

VARIABLES
    frame_cache,      \* CameraManager.frame_cache: camera id -> frame, timestamp
    clock,            \* time.time(), in seconds
    latest_frame,     \* the latest frame each camera's processor holds
    jpeg_call         \* the get_jpeg_frame call of each request

cacheVars == <<frame_cache, clock, latest_frame, jpeg_call>>

vars == <<hlsVars, webrtcVars, spVars, cmVars, pipeVars, cacheVars>>

(***************************************************************************)
(* app/api/hls.py                                                          *)
(***************************************************************************)
IdleTask == [op |-> "none", pc |-> "idle", camera_id |-> 0, session_id |-> 0,
             retry_count |-> 0, result |-> "none", expired |-> <<>>]
\* the task of cleanup_expired_sessions, beside the requests
Sweeper == 0
\* the requests of one client
Clients == {1}
SweeperAsleep == [IdleTask EXCEPT !.op = "sweep", !.pc = "sweep_sleep"]

\* d with key k removed
DictDel(d, k) == [x \in (DOMAIN d) \ {k} |-> d[x]]
\* d with d[k] = v
DictPut(d, k, v) == [x \in (DOMAIN d) \cup {k} |-> IF x = k THEN v ELSE d[x]]

\* list.remove(x): the first occurrence
RECURSIVE ListRemove(_, _)
ListRemove(s, x) ==
    IF s = <<>> THEN <<>>
    ELSE IF Head(s) = x THEN Tail(s)
    ELSE <<Head(s)>> \o ListRemove(Tail(s), x)

InList(s, x) == \E i \in 1..Len(s) : s[i] = x

\* the members of a set of numbers in ascending order
RECURSIVE SortedSeq(_)
SortedSeq(S) ==
    IF S = {} THEN <<>>
    ELSE LET m == CHOOSE x \in S : \A y \in S : x <= y
         IN  <<m>> \o SortedSeq(S \ {m})

InitHls ==
    /\ active_processes = {}
    /\ hls_sessions = <<>>
    /\ camera_connections = <<>>
    /\ active_camera_streams = <<>>
    /\ proc = [s \in SessionIds |-> "none"]
    /\ session_dirs = {}
    /\ playlists = {}
    /\ access_files = {}
    /\ next_session = 1
    /\ task = [t \in Tasks \cup {Sweeper} |-> IdleTask]
    /\ spawned = [s \in SessionIds |-> 0]
    /\ last_spawned = [c \in DbCameras |-> 0]
    /\ started_ok = {}
    /\ now = 0
    /\ output_read = {}
    /\ startup_done = FALSE

\* start_stream: "Check if this camera already has an active stream"
HasActiveStream_Negated(camera_id) ==
    /\ camera_id \in DOMAIN active_camera_streams
    /\ active_camera_streams[camera_id] \notin DOMAIN hls_sessions

HasActiveStream(camera_id) ==
    /\ camera_id \in DOMAIN active_camera_streams
    /\ active_camera_streams[camera_id] \in DOMAIN hls_sessions

\* hls_sessions[session_id]["last_activity"] = time.time()
Touch(session_id) == [hls_sessions EXCEPT ![session_id].last_activity = now]

\* cleanup_process, from "Clean up session data" to its end
CameraConnectionsWithout(session_id) ==
    LET removed == [c \in DOMAIN camera_connections |->
                       ListRemove(camera_connections[c], session_id)]
        kept == {c \in DOMAIN removed : removed[c] # <<>>}
    IN  [c \in kept |-> removed[c]]

ActiveCameraStreamsWithout(session_id) ==
    IF session_id \in DOMAIN hls_sessions
    THEN LET camera_id == hls_sessions[session_id].camera_id
         IN  IF /\ camera_id # 0
                /\ camera_id \in DOMAIN active_camera_streams
                /\ active_camera_streams[camera_id] = session_id
             THEN DictDel(active_camera_streams, camera_id)
             ELSE active_camera_streams
    ELSE active_camera_streams

CleanupSessionData(session_id) ==
    /\ active_camera_streams' = ActiveCameraStreamsWithout(session_id)
    /\ hls_sessions' = DictDel(hls_sessions, session_id)
    /\ camera_connections' = CameraConnectionsWithout(session_id)
    /\ session_dirs' = session_dirs \ {session_id}
    /\ playlists' = playlists \ {session_id}
    /\ access_files' = access_files \ {session_id}

\* what the handler answers once cleanup_process has returned
AfterCleanup(rec) ==
    IF rec.op = "sweep"
    THEN \* the next of "for session_id in expired_sessions", or sleep(60)
         IF Tail(rec.expired) = <<>> THEN SweeperAsleep
         ELSE [rec EXCEPT !.pc = "sweep_next", !.session_id = 0,
                          !.expired = Tail(@)]
    ELSE [rec EXCEPT !.pc = "done", !.retry_count = 0,
                     !.result = IF rec.op = "start" THEN "failed" ELSE "stopped"]

\* cleanup_process up to its first suspension point, called by request t
\* whose record is rec
CleanupProcess(t, rec, session_id) ==
    IF session_id \in active_processes
    THEN \/ \* terminate() raises for a process already reaped: finally, del
            /\ proc[session_id] = "exited"
            /\ active_processes' = active_processes \ {session_id}
            /\ CleanupSessionData(session_id)
            /\ task' = [task EXCEPT ![t] = AfterCleanup(rec)]
            /\ UNCHANGED proc
         \/ \* terminate(), then asyncio.sleep(3)
            /\ task' = [task EXCEPT ![t] = [rec EXCEPT !.pc = "cleanup_sleep",
                                                       !.session_id = session_id]]
            /\ UNCHANGED <<active_processes, hls_sessions, camera_connections,
                           active_camera_streams, proc, session_dirs,
                           playlists, access_files>>
    ELSE /\ CleanupSessionData(session_id)
         /\ task' = [task EXCEPT ![t] = AfterCleanup(rec)]
         /\ UNCHANGED <<active_processes, proc>>

\* cleanup_process after asyncio.sleep(3): process.poll() does not exist on
\* the asyncio process that create_subprocess_exec returned, the
\* AttributeError is caught ("Error killing process") and kill() is never
\* reached; then finally: del active_processes[session_id]
CleanupWake(t) ==
    LET session_id == task[t].session_id IN
    /\ task[t].pc = "cleanup_sleep"
    /\ IF session_id \in active_processes
       THEN /\ active_processes' = active_processes \ {session_id}
            /\ CleanupSessionData(session_id)
            /\ task' = [task EXCEPT ![t] = AfterCleanup(task[t])]
       ELSE \* KeyError out of the finally clause
            IF task[t].op = "start"
            THEN \* caught in start_hls_stream, which calls cleanup_process again
                 /\ CleanupSessionData(session_id)
                 /\ task' = [task EXCEPT ![t] = AfterCleanup(task[t])]
                 /\ UNCHANGED active_processes
            ELSE \* stop_stream: the request fails; the sweep logs "Error in
                 \* session cleanup" and sleeps
                 /\ task' = IF task[t].op = "sweep"
                            THEN [task EXCEPT ![t] = SweeperAsleep]
                            ELSE [task EXCEPT ![t].pc = "done",
                                              ![t].result = "error",
                                              ![t].retry_count = 0]
                 /\ UNCHANGED <<active_processes, hls_sessions,
                                camera_connections, active_camera_streams,
                                session_dirs, playlists, access_files>>
    /\ UNCHANGED <<proc, next_session, spawned, last_spawned, started_ok>>
    /\ UNCHANGED <<now, output_read, startup_done>>

\* POST /start/{camera_id}: the request arrives and awaits db.get; requests
\* arrive while session ids are left for those that have not taken theirs
StartStream(t, camera_id) ==
    /\ task[t].pc = "idle"
    /\ next_session + Cardinality({u \in DOMAIN task : task[u].pc = "start_db"})
           <= MaxSessions
    /\ task' = [task EXCEPT ![t] = [IdleTask EXCEPT !.op = "start",
                                                   !.pc = "start_db",
                                                   !.camera_id = camera_id]]
    /\ UNCHANGED <<active_processes, hls_sessions, camera_connections,
                   active_camera_streams, proc, session_dirs, playlists,
                   access_files, next_session, spawned, last_spawned,
                   started_ok>>
    /\ UNCHANGED <<now, output_read, startup_done>>

\* start_stream from the camera lookup to create_subprocess_exec
StartCheck(t) ==
    LET camera_id == task[t].camera_id IN
    /\ task[t].pc = "start_db"
    /\ IF camera_id \notin DbCameras
       THEN /\ task' = [task EXCEPT ![t].pc = "done", ![t].result = "404"]
            /\ UNCHANGED <<hls_sessions, session_dirs, access_files,
                           next_session>>
       ELSE IF HasActiveStream(camera_id)
       THEN \* 200, "Reusing existing HLS stream", last_activity updated
            /\ hls_sessions' = Touch(active_camera_streams[camera_id])
            /\ task' = [task EXCEPT ![t].pc = "done", ![t].result = "reused",
                           ![t].session_id = active_camera_streams[camera_id]]
            /\ UNCHANGED <<session_dirs, access_files, next_session>>
       ELSE /\ UNCHANGED hls_sessions
            /\ next_session <= MaxSessions
            /\ session_dirs' = session_dirs \cup {next_session}
            /\ access_files' = access_files \cup {next_session}
            /\ next_session' = next_session + 1
            /\ task' = [task EXCEPT ![t].pc = "start_spawn",
                                    ![t].session_id = next_session]
    /\ started_ok' = IF task'[t].result = "reused"
                     THEN started_ok \cup {task'[t].session_id} ELSE started_ok
    /\ UNCHANGED <<active_processes, camera_connections,
                   active_camera_streams, proc, playlists, spawned,
                   last_spawned>>
    /\ UNCHANGED <<now, output_read, startup_done>>

\* start_hls_stream from create_subprocess_exec to asyncio.sleep(5)
StartSpawn(t) ==
    LET camera_id == task[t].camera_id
        session_id == task[t].session_id IN
    /\ task[t].pc = "start_spawn"
    /\ \/ /\ proc' = [proc EXCEPT ![session_id] = "running"]
          /\ spawned' = [spawned EXCEPT ![session_id] = camera_id]
          /\ last_spawned' = [last_spawned EXCEPT ![camera_id] = session_id]
          /\ active_processes' = active_processes \cup {session_id}
          /\ hls_sessions' = DictPut(hls_sessions, session_id,
                                     [camera_id |-> camera_id,
                                      start_time |-> now,
                                      last_activity |-> now])
          /\ active_camera_streams' =
                 DictPut(active_camera_streams, camera_id, session_id)
          /\ camera_connections' =
                 DictPut(camera_connections, camera_id,
                         (IF camera_id \in DOMAIN camera_connections
                          THEN camera_connections[camera_id] ELSE <<>>)
                         \o <<session_id>>)
          /\ task' = [task EXCEPT ![t].pc = "start_sleep"]
          /\ UNCHANGED <<session_dirs, playlists, access_files>>
       \/ \* create_subprocess_exec raises: except, cleanup_process, return False
          /\ CleanupProcess(t, task[t], session_id)
          /\ UNCHANGED <<spawned, last_spawned>>
    /\ UNCHANGED <<next_session, started_ok>>
    /\ UNCHANGED <<now, output_read, startup_done>>

\* start_hls_stream waking from asyncio.sleep(5) or from a retry's sleep(1)
StartWake(t) ==
    LET session_id == task[t].session_id
        retry_count == IF task[t].pc = "start_retry"
                       THEN task[t].retry_count + 1 ELSE task[t].retry_count IN
    /\ task[t].pc \in {"start_sleep", "start_retry"}
    /\ IF session_id \in playlists
       THEN /\ task' = [task EXCEPT ![t].pc = "done", ![t].result = "ok",
                                    ![t].retry_count = 0]
            /\ started_ok' = started_ok \cup {session_id}
            /\ UNCHANGED <<active_processes, hls_sessions, camera_connections,
                           active_camera_streams, proc, session_dirs,
                           playlists, access_files>>
       ELSE IF retry_count < max_retries
       THEN /\ task' = [task EXCEPT ![t].pc = "start_retry",
                                    ![t].retry_count = retry_count]
            /\ UNCHANGED <<active_processes, hls_sessions, camera_connections,
                           active_camera_streams, proc, session_dirs,
                           playlists, access_files, started_ok>>
       ELSE /\ CleanupProcess(t, [task[t] EXCEPT !.retry_count = retry_count],
                              session_id)
            /\ UNCHANGED started_ok
    /\ UNCHANGED <<next_session, spawned, last_spawned>>
    /\ UNCHANGED <<now, output_read, startup_done>>

\* DELETE /stop/{session_id}
StopStream(t, session_id) ==
    LET rec == [IdleTask EXCEPT !.op = "stop", !.session_id = session_id] IN
    /\ task[t].pc = "idle"
    /\ IF session_id \notin DOMAIN hls_sessions
       THEN /\ task' = [task EXCEPT ![t] = [rec EXCEPT !.pc = "done",
                                                       !.result = "404"]]
            /\ UNCHANGED <<active_processes, hls_sessions, camera_connections,
                           active_camera_streams, proc, session_dirs,
                           playlists, access_files>>
       ELSE CleanupProcess(t, rec, session_id)
    /\ UNCHANGED <<next_session, spawned, last_spawned, started_ok>>
    /\ UNCHANGED <<now, output_read, startup_done>>

\* the response has been sent
Respond(t) ==
    /\ task[t].pc = "done"
    /\ task' = [task EXCEPT ![t] = IdleTask]
    /\ UNCHANGED <<active_processes, hls_sessions, camera_connections,
                   active_camera_streams, proc, session_dirs, playlists,
                   access_files, next_session, spawned, last_spawned,
                   started_ok>>
    /\ UNCHANGED <<now, output_read, startup_done>>

\* ffmpeg writes index.m3u8 into its session directory
PlaylistWritten(session_id) ==
    /\ proc[session_id] = "running"
    /\ session_id \in session_dirs
    /\ session_id \notin playlists
    /\ playlists' = playlists \cup {session_id}
    /\ UNCHANGED <<active_processes, hls_sessions, camera_connections,
                   active_camera_streams, proc, session_dirs, access_files,
                   next_session, task, spawned, last_spawned, started_ok>>
    /\ UNCHANGED <<now, output_read, startup_done>>

\* ffmpeg exits: a bad source, or the SIGTERM of terminate()
ProcessExits(session_id) ==
    /\ proc[session_id] = "running"
    /\ proc' = [proc EXCEPT ![session_id] = "exited"]
    /\ UNCHANGED <<active_processes, hls_sessions, camera_connections,
                   active_camera_streams, session_dirs, playlists,
                   access_files, next_session, task, spawned,
                   last_spawned, started_ok>>
    /\ UNCHANGED <<now, output_read, startup_done>>

\* settings.HLS_TTL (3600 s) and the time followed, in periods of the sweep
HLS_TTL == 1
MaxTime == 3

\* the age taken from the start of the session
Expired_StartTime(session_id) ==
    now - hls_sessions[session_id].start_time > HLS_TTL

\* "current_time - session_data.get("last_activity", 0) > settings.HLS_TTL"
Expired(session_id) == now - hls_sessions[session_id].last_activity > HLS_TTL

\* cleanup_expired_sessions at the top of its loop, on its first run or
\* after asyncio.sleep(60): the expired sessions are listed and the first of
\* them is cleaned up
SweepWake ==
    LET expired_sessions ==
            SortedSeq({x \in DOMAIN hls_sessions : Expired(x)})
        rec == [SweeperAsleep EXCEPT !.pc = "sweep_next",
                                     !.expired = expired_sessions]
    IN  /\ task[Sweeper].pc \in {"idle", "sweep_sleep"}
        /\ IF expired_sessions = <<>>
           THEN /\ task' = [task EXCEPT ![Sweeper] = SweeperAsleep]
                /\ UNCHANGED <<active_processes, hls_sessions,
                               camera_connections, active_camera_streams,
                               proc, session_dirs, playlists, access_files>>
           ELSE CleanupProcess(Sweeper, rec, Head(expired_sessions))
        /\ UNCHANGED <<next_session, spawned, last_spawned, started_ok, now,
                       output_read, startup_done>>

\* cleanup_expired_sessions goes on to the next expired session
SweepNext ==
    /\ task[Sweeper].pc = "sweep_next"
    /\ CleanupProcess(Sweeper, task[Sweeper], Head(task[Sweeper].expired))
    /\ UNCHANGED <<next_session, spawned, last_spawned, started_ok, now,
                   output_read, startup_done>>

\* POST /keepalive/{session_id}: 404, or last_activity updated
Keepalive(session_id) ==
    /\ hls_sessions' = IF session_id \in DOMAIN hls_sessions
                       THEN Touch(session_id) ELSE hls_sessions
    /\ UNCHANGED <<active_processes, camera_connections,
                   active_camera_streams, proc, session_dirs, playlists,
                   access_files, next_session, task, spawned, last_spawned,
                   started_ok, now, output_read, startup_done>>

\* GET /status/{session_id}: 404, or last_activity updated and the session
\* reported
StreamStatus(session_id) ==
    /\ hls_sessions' = IF session_id \in DOMAIN hls_sessions
                       THEN Touch(session_id) ELSE hls_sessions
    /\ UNCHANGED <<active_processes, camera_connections,
                   active_camera_streams, proc, session_dirs, playlists,
                   access_files, next_session, task, spawned, last_spawned,
                   started_ok, now, output_read, startup_done>>

\* a period of the sweep passes
Tick ==
    /\ now < MaxTime
    /\ now' = now + 1
    /\ UNCHANGED <<active_processes, hls_sessions, camera_connections,
                   active_camera_streams, proc, session_dirs, playlists,
                   access_files, next_session, task, spawned, last_spawned,
                   started_ok, output_read, startup_done>>

\* start_cleanup_task: its body is the docstring, no task is created
StartCleanupTask == UNCHANGED task

\* main.py's startup_event, "Start HLS cleanup task"
StartupEvent ==
    /\ ~startup_done
    /\ startup_done' = TRUE
    /\ StartCleanupTask
    /\ UNCHANGED <<active_processes, hls_sessions, camera_connections,
                   active_camera_streams, proc, session_dirs, playlists,
                   access_files, next_session, spawned, last_spawned,
                   started_ok, now, output_read>>

\* read_ffmpeg_output: both pipes of an exited process are at their end, the
\* return code is logged and the task ends
ReadFfmpegOutput(session_id) ==
    /\ proc[session_id] = "exited"
    /\ session_id \notin output_read
    /\ output_read' = output_read \cup {session_id}
    /\ UNCHANGED <<active_processes, hls_sessions, camera_connections,
                   active_camera_streams, proc, session_dirs, playlists,
                   access_files, next_session, task, spawned, last_spawned,
                   started_ok, now, startup_done>>

(***************************************************************************)
(* app/api/webrtc.py: WebRTCManager, RTSPVideoStreamTrack                  *)
(* The camera manager behind ensure_camera_connected and aiortc behind     *)
(* RTCPeerConnection are the environment of the manager.                   *)
(***************************************************************************)
NoConn == [camera |-> 0, state |-> "none", step |-> "none", track |-> 0,
           handler |-> "none"]
NoTrack == [created |-> FALSE, camera |-> 0, ref_count |-> 0,
            running |-> FALSE, stop_calls |-> 0]

InitWebRTC ==
    /\ peer_connections = <<>>
    /\ camera_tracks = <<>>
    /\ conn = [p \in PcIds |-> NoConn]
    /\ track = [tr \in PcIds |-> NoTrack]
    /\ next_pc = 1
    /\ webrtc_lock = [holder |-> 0, waiters |-> <<>>]

\* RTSPVideoStreamTrack.__init__: "Start with 1 reference"
TrackInit(camera_id) ==
    [created |-> TRUE, camera |-> camera_id, ref_count |-> 1,
     running |-> TRUE, stop_calls |-> 0]

\* RTSPVideoStreamTrack.add_ref
TrackAddRef(tr) == [tr EXCEPT !.ref_count = tr.ref_count + 1]

\* RTSPVideoStreamTrack(camera_id, high_quality=True).add_ref()
NewTrack(camera_id) == TrackAddRef(TrackInit(camera_id))

\* RTSPVideoStreamTrack.stop
TrackStop(tr) ==
    [tr EXCEPT !.running = FALSE, !.stop_calls = tr.stop_calls + 1]

\* RTSPVideoStreamTrack.remove_ref
TrackRemoveRef(tr) ==
    LET dec == [tr EXCEPT !.ref_count = tr.ref_count - 1]
    IN  IF dec.ref_count <= 0 THEN TrackStop(dec) ELSE dec

\* pc.close() on a live connection: its state becomes "closed" and the
\* statechange handlers, once create_peer_connection has installed them, are
\* scheduled
PcClosed(c) ==
    IF c.state = "closed" THEN c
    ELSE [c EXCEPT !.state = "closed",
                   !.handler = IF c.step = "returned" /\ c.handler = "none"
                               THEN "scheduled" ELSE c.handler]

\* asyncio.Lock: acquire() returns at once when the lock is free and nobody
\* waits for it; release() wakes the first waiter, which holds the lock when
\* it runs
LockIdle == webrtc_lock.holder = 0 /\ webrtc_lock.waiters = <<>>
Waiter(kind, p) == [task |-> kind, pc |-> p]
LockNext(kind, p) ==
    /\ webrtc_lock.holder = 0
    /\ webrtc_lock.waiters # <<>>
    /\ Head(webrtc_lock.waiters) = Waiter(kind, p)

\* self.peer_connections[camera_id], empty when the camera has no entry
Listed(pcs, camera_id) ==
    IF camera_id \in DOMAIN pcs THEN pcs[camera_id] ELSE <<>>

\* create_peer_connection from "Keep track of this peer connection", under
\* the lock, to the await of ensure_camera_connected, or to its return when
\* the camera already has a track; pcs is peer_connections as the first
\* section left it and w the tasks still waiting for the lock
TrackConnection(p, camera_id, pcs, w) ==
    /\ peer_connections' =
           DictPut(pcs, camera_id, Listed(pcs, camera_id) \o <<p>>)
    /\ IF camera_id \in DOMAIN camera_tracks
       THEN conn' = [conn EXCEPT ![p] =
                        [camera |-> camera_id, state |-> "new",
                         step |-> "returned",
                         track |-> camera_tracks[camera_id],
                         handler |-> "none"]]
       ELSE conn' = [conn EXCEPT ![p] =
                        [camera |-> camera_id, state |-> "new",
                         step |-> "ensure", track |-> 0, handler |-> "none"]]
    /\ webrtc_lock' = [holder |-> 0, waiters |-> w]
    /\ UNCHANGED <<camera_tracks, track>>

\* create_peer_connection from the release of the lock after its first
\* section: RTCPeerConnection() and the second "async with self._lock", which
\* waits when other tasks wait for the lock
ConstructPc(p, camera_id, pcs, w) ==
    IF w = <<>>
    THEN TrackConnection(p, camera_id, pcs, w)
    ELSE /\ peer_connections' = pcs
         /\ conn' = [conn EXCEPT ![p] =
                        [camera |-> camera_id, state |-> "new",
                         step |-> "wait2", track |-> 0, handler |-> "none"]]
         /\ webrtc_lock' = [holder |-> 0,
                            waiters |-> Append(w, Waiter("create2", p))]
         /\ UNCHANGED <<camera_tracks, track>>

\* the first section of create_peer_connection, entered with the lock: at
\* the limit the oldest connection is closed, and the lock is held across
\* "await oldest_pc.close()"
CheckLimit(p, camera_id, w) ==
    LET listed == Listed(peer_connections, camera_id)
    IN  IF /\ camera_id \in DOMAIN peer_connections
           /\ Len(listed) >= max_connections_per_camera
        THEN /\ conn' = [conn EXCEPT
                            ![Head(listed)] = PcClosed(conn[Head(listed)]),
                            ![p] = [camera |-> camera_id, state |-> "none",
                                    step |-> "cap_close", track |-> 0,
                                    handler |-> "none"]]
             /\ webrtc_lock' = [holder |-> p, waiters |-> w]
             /\ UNCHANGED <<peer_connections, camera_tracks, track>>
        ELSE ConstructPc(p, camera_id, peer_connections, w)

\* a viewer's offer calls create_peer_connection, which runs to its first
\* await that suspends it
CreatePeerConnection(camera_id) ==
    LET p == next_pc
    IN
    /\ next_pc' = next_pc + 1
    /\ IF LockIdle
       THEN CheckLimit(p, camera_id, <<>>)
       ELSE /\ conn' = [conn EXCEPT ![p] =
                           [camera |-> camera_id, state |-> "none",
                            step |-> "wait1", track |-> 0, handler |-> "none"]]
            /\ webrtc_lock' =
                   [webrtc_lock EXCEPT !.waiters = Append(@, Waiter("create1", p))]
            /\ UNCHANGED <<peer_connections, camera_tracks, track>>

\* create_peer_connection is given the lock for its first section
CreateLocked(p) ==
    /\ conn[p].step = "wait1"
    /\ LockNext("create1", p)
    /\ CheckLimit(p, conn[p].camera, Tail(webrtc_lock.waiters))
    /\ UNCHANGED next_pc

\* "await oldest_pc.close()" returns: the oldest connection is taken off the
\* list and the lock released
OldestClosed(p) ==
    LET camera_id == conn[p].camera
        listed == peer_connections[camera_id]
    IN
    /\ conn[p].step = "cap_close"
    /\ ConstructPc(p, camera_id,
                   DictPut(peer_connections, camera_id,
                           ListRemove(listed, Head(listed))),
                   webrtc_lock.waiters)
    /\ UNCHANGED next_pc

\* create_peer_connection is given the lock for its second section
TrackLocked(p) ==
    /\ conn[p].step = "wait2"
    /\ LockNext("create2", p)
    /\ TrackConnection(p, conn[p].camera, peer_connections,
                       Tail(webrtc_lock.waiters))
    /\ UNCHANGED next_pc

\* ensure_camera_connected has returned (connected or not): the track is
\* constructed and stored, the connection subscribes to it, the handlers are
\* installed
EnsureReturns(p) ==
    /\ conn[p].step = "ensure"
    /\ track' = [track EXCEPT ![p] = NewTrack(conn[p].camera)]
    /\ camera_tracks' = DictPut(camera_tracks, conn[p].camera, p)
    /\ conn' = [conn EXCEPT ![p].step = "returned", ![p].track = p]
    /\ UNCHANGED <<peer_connections, next_pc, webrtc_lock>>

\* ensure_camera_connected has raised: create_peer_connection raises, the
\* connection stays listed without track or handlers
EnsureRaises(p) ==
    /\ conn[p].step = "ensure"
    /\ conn' = [conn EXCEPT ![p].step = "raised"]
    /\ UNCHANGED <<peer_connections, camera_tracks, track, next_pc,
                   webrtc_lock>>

\* the connection of a viewer fails: on_connectionstatechange is scheduled
\* if it is installed
PcFails(p) ==
    /\ conn[p].state = "new"
    /\ conn' = [conn EXCEPT ![p].state = "failed",
                            ![p].handler = IF conn[p].step = "returned"
                                           THEN "scheduled" ELSE "none"]
    /\ UNCHANGED <<peer_connections, camera_tracks, track, next_pc,
                   webrtc_lock>>

\* close_peer_connection: await pc.close()
CloseStart(p) ==
    /\ conn[p].handler = "scheduled"
    /\ conn' = [conn EXCEPT ![p].state = "closed", ![p].handler = "lock"]
    /\ UNCHANGED <<peer_connections, camera_tracks, track, next_pc,
                   webrtc_lock>>

\* close_peer_connection: the section under self._lock
CloseSection(p) ==
    LET camera_id == conn[p].camera
        removed == IF camera_id \in DOMAIN peer_connections
                   THEN DictPut(peer_connections, camera_id,
                                ListRemove(peer_connections[camera_id], p))
                   ELSE peer_connections
        last == /\ camera_id \in DOMAIN removed
                /\ removed[camera_id] = <<>>
                /\ camera_id \in DOMAIN camera_tracks
    IN
    /\ conn' = [conn EXCEPT ![p].handler = "done"]
    /\ peer_connections' = removed
    /\ IF last
       THEN /\ track' = [track EXCEPT ![camera_tracks[camera_id]] =
                            TrackRemoveRef(track[camera_tracks[camera_id]])]
            /\ camera_tracks' = DictDel(camera_tracks, camera_id)
       ELSE UNCHANGED <<camera_tracks, track>>
    /\ UNCHANGED next_pc

\* close_peer_connection after pc.close(): it takes the lock and runs its
\* section, or waits for the lock
CloseFinish(p) ==
    /\ conn[p].handler = "lock"
    /\ IF LockIdle
       THEN CloseSection(p) /\ UNCHANGED webrtc_lock
       ELSE /\ conn' = [conn EXCEPT ![p].handler = "lock_wait"]
            /\ webrtc_lock' =
                   [webrtc_lock EXCEPT !.waiters = Append(@, Waiter("close", p))]
            /\ UNCHANGED <<peer_connections, camera_tracks, track, next_pc>>

\* close_peer_connection is given the lock
CloseLocked(p) ==
    /\ conn[p].handler = "lock_wait"
    /\ LockNext("close", p)
    /\ CloseSection(p)
    /\ webrtc_lock' = [webrtc_lock EXCEPT !.waiters = Tail(@)]

\* _cleanup_resources, once cleanup_interval has passed since the last run
ActiveConnections(camera_id) ==
    SelectSeq(peer_connections[camera_id],
              LAMBDA p : conn[p].state \notin {"closed", "failed"})

CleanupResources ==
    LET unused == {c \in DOMAIN peer_connections :
                      ActiveConnections(c) = <<>> /\ c \in DOMAIN camera_tracks}
        stopped == {camera_tracks[c] : c \in unused}
        keep == {c \in DOMAIN peer_connections : ActiveConnections(c) # <<>>}
    IN
    /\ LockIdle
    /\ track' = [tr \in PcIds |->
                    IF tr \in stopped /\ track[tr].running
                    THEN TrackStop(track[tr]) ELSE track[tr]]
    /\ camera_tracks' = [c \in (DOMAIN camera_tracks) \ unused |->
                             camera_tracks[c]]
    /\ peer_connections' = [c \in keep |-> ActiveConnections(c)]
    /\ UNCHANGED <<conn, next_pc, webrtc_lock>>

(***************************************************************************)
(* app/core/stream_processor.py: StreamProcessor                           *)
(* Its public methods are called by a client on the event loop; the        *)
(* capture thread runs beside the loop.  disconnect() blocks the loop in   *)
(* capture_thread.join(timeout=5.0) and is cut where the thread can act.   *)
(***************************************************************************)
NoOverflow == [seen |-> <<>>, frame |-> 0, interfered |-> FALSE,
               done |-> FALSE]

InitStream ==
    /\ sp = [connected |-> FALSE, processing |-> FALSE, reconnecting |-> FALSE,
             capture |-> "none", capture_thread_running |-> FALSE,
             consecutive_errors |-> 0, latest_raw_frame |-> 0,
             latest_processed_frame |-> 0,
             processed_from |-> [newest |-> 0, latest |-> 0],
             earlier_threads |-> 0, earlier_tasks |-> 0]
    /\ raw_frame_queue = <<>>
    /\ processed_frame_queue = <<>>
    /\ capture_thread = [pc |-> "stopped", frame |-> 0]
    /\ process_task = [pc |-> "none", frame |-> 0]
    /\ disc = [pc |-> "none", caller |-> "none"]
    /\ reconnect_task = "none"
    /\ next_frame = 1
    /\ next_record = 1
    /\ ever_connected = FALSE
    /\ overflow = NoOverflow
    /\ since_attempt = 0
    /\ reconnect_delays = <<>>

\* the event loop is not inside a blocking call
LoopFree == disc.pc = "none"

\* another thread changes the raw queue while the capture thread is between
\* its failed put_nowait and its retry
Interfere ==
    IF capture_thread.pc \in {"drop", "put"}
    THEN [overflow EXCEPT !.interfered = TRUE] ELSE overflow

\* the thread that self.capture_thread refers to has not terminated
CaptureThreadAlive == capture_thread.pc # "stopped"

\* connect(), from _connect_rtsp on: the device opens or it does not.  A
\* thread is started when capture_thread_running is False, whether or not
\* the thread of the connection before has terminated; one that has not is
\* counted in earlier_threads from here on
ConnectRtsp(opened) ==
    IF opened
    THEN /\ ever_connected' = TRUE
         /\ capture_thread.pc # "read"
         /\ sp.capture_thread_running \/ ~CaptureThreadAlive
                \/ sp.earlier_threads < MaxEarlier
         /\ sp' = [sp EXCEPT !.capture = "open", !.connected = TRUE,
                             !.capture_thread_running = TRUE,
                             !.consecutive_errors = 0,
                             !.earlier_threads =
                                 IF ~sp.capture_thread_running
                                        /\ CaptureThreadAlive
                                 THEN @ + 1 ELSE @]
         /\ capture_thread' = IF sp.capture_thread_running THEN capture_thread
                              ELSE [pc |-> "top", frame |-> 0]
    ELSE /\ capture_thread.pc # "read"
         /\ sp' = [sp EXCEPT !.capture = "closed"]
         /\ UNCHANGED <<capture_thread, ever_connected>>

DisconnectBegin_KeepsProcessing(caller) ==
    /\ sp' = [sp EXCEPT !.connected = FALSE,
                        !.capture_thread_running = FALSE]
    /\ disc' = [pc |-> "join", caller |-> caller]

\* disconnect() up to capture_thread.join
DisconnectBegin(caller) ==
    /\ sp' = [sp EXCEPT !.connected = FALSE, !.processing = FALSE,
                        !.capture_thread_running = FALSE]
    /\ disc' = [pc |-> "join", caller |-> caller]

\* a client calls connect() on a processor that is not connected; SpecQueue
\* follows one connection, from the connect() that opens the device on
Connect(opened) ==
    /\ LoopFree
    /\ reconnect_task = "none"
    /\ ~sp.connected
    /\ opened => ~ever_connected
    /\ ConnectRtsp(opened)
    /\ UNCHANGED <<raw_frame_queue, processed_frame_queue, process_task, disc,
                   reconnect_task, next_frame, next_record, overflow,
                   since_attempt, reconnect_delays>>

\* a client calls connect() on a processor that was connected before and is
\* not connected now
ConnectAgain(opened) ==
    /\ LoopFree
    /\ reconnect_task = "none"
    /\ ~sp.connected
    /\ ever_connected
    /\ ConnectRtsp(opened)
    /\ UNCHANGED <<raw_frame_queue, processed_frame_queue, process_task, disc,
                   reconnect_task, next_frame, next_record, overflow,
                   since_attempt, reconnect_delays>>

\* a client calls disconnect()
Disconnect ==
    /\ LoopFree
    /\ reconnect_task = "none"
    /\ DisconnectBegin("client")
    /\ UNCHANGED <<raw_frame_queue, processed_frame_queue, capture_thread,
                   process_task, reconnect_task, next_frame, next_record,
                   ever_connected, overflow, since_attempt, reconnect_delays>>

\* join(timeout=5.0) gives up on a thread that sits in capture.read()
DisconnectJoinTimeout ==
    /\ disc.pc = "join"
    /\ capture_thread.pc = "read"
    /\ disc' = [disc EXCEPT !.pc = "cv_lock"]
    /\ UNCHANGED <<sp, raw_frame_queue, processed_frame_queue, capture_thread,
                   process_task, reconnect_task, next_frame, next_record,
                   ever_connected, overflow, since_attempt, reconnect_delays>>

\* disconnect() from the release of the device under _cv_lock to its end:
\* the handle is dropped and both queues are cleared
DisconnectEnd ==
    /\ \/ disc.pc = "join" /\ capture_thread.pc = "stopped"
       \/ disc.pc = "cv_lock" /\ capture_thread.pc # "read"
    /\ sp' = [sp EXCEPT !.capture = "none"]
    /\ raw_frame_queue' = <<>>
    /\ processed_frame_queue' = <<>>
    /\ overflow' = Interfere
    /\ disc' = [pc |-> "none", caller |-> "none"]
    \* _attempt_reconnect goes on to asyncio.sleep(2.0)
    /\ reconnect_task' = IF disc.caller = "reconnect" THEN "sleep2"
                         ELSE reconnect_task
    /\ UNCHANGED <<capture_thread, process_task, next_frame, next_record,
                   ever_connected, since_attempt, reconnect_delays>>

\* a capture thread of an earlier connection reaches the test of its loop,
\* "while self.capture_thread_running", and ends; while the flag is set it
\* goes round the loop like the thread CaptureTop follows
EarlierCaptureExit ==
    /\ sp.earlier_threads > 0
    /\ ~sp.capture_thread_running
    /\ sp' = [sp EXCEPT !.earlier_threads = @ - 1]
    /\ UNCHANGED <<raw_frame_queue, processed_frame_queue, capture_thread,
                   process_task, disc, reconnect_task, next_frame, next_record,
                   ever_connected, overflow, since_attempt, reconnect_delays>>

\* consecutive_errors += 1, counted up to the threshold of
\* "if self.consecutive_errors > 30" and one beyond
ErrorThreshold == 30
CountError(n) == IF n > ErrorThreshold THEN n ELSE n + 1

\* _capture_frames_thread at the top of its loop, up to capture.read()
CaptureTop ==
    /\ capture_thread.pc = "top"
    /\ IF ~sp.capture_thread_running
       THEN /\ capture_thread' = [pc |-> "stopped", frame |-> 0]
            /\ UNCHANGED sp
       ELSE IF sp.capture # "open"
       THEN /\ sp' = [sp EXCEPT !.consecutive_errors = CountError(@)]
            /\ UNCHANGED capture_thread
       ELSE /\ capture_thread' = [capture_thread EXCEPT !.pc = "read"]
            /\ UNCHANGED sp
    /\ overflow' = NoOverflow
    /\ UNCHANGED <<raw_frame_queue, processed_frame_queue, process_task, disc,
                   reconnect_task, next_frame, next_record, ever_connected,
                   since_attempt, reconnect_delays>>

\* capture.read() returns a frame
CaptureReadOk ==
    /\ capture_thread.pc = "read"
    /\ next_frame <= MaxFrames
    /\ capture_thread' = [pc |-> "push", frame |-> next_frame]
    /\ next_frame' = next_frame + 1
    /\ sp' = [sp EXCEPT !.consecutive_errors = 0]
    /\ UNCHANGED <<raw_frame_queue, processed_frame_queue, process_task, disc,
                   reconnect_task, next_record, ever_connected, overflow, since_attempt,
                   reconnect_delays>>

\* Queue.put_nowait: the queue with the item added, when it is not full
PutNowait_Unbounded(q, x) == Append(q, x)

PutNowait(q, x) == IF Len(q) < maxsize THEN Append(q, x) ELSE q

\* Queue.get_nowait: the queue without its oldest item

GetNowait(q) == Tail(q)

\* raw_frame_queue.put_nowait((frame.copy(), timestamp)) and what follows it,
\* or the Full it raises
CapturePush ==
    /\ capture_thread.pc = "push"
    /\ IF PutNowait(raw_frame_queue, capture_thread.frame) # raw_frame_queue
       THEN /\ raw_frame_queue' = PutNowait(raw_frame_queue, capture_thread.frame)
            /\ sp' = [sp EXCEPT !.latest_raw_frame = capture_thread.frame]
            /\ capture_thread' = [pc |-> "top", frame |-> 0]
            /\ UNCHANGED overflow
       ELSE /\ capture_thread' = [capture_thread EXCEPT !.pc = "drop"]
            /\ overflow' = [seen |-> raw_frame_queue,
                            frame |-> capture_thread.frame,
                            interfered |-> FALSE, done |-> FALSE]
            /\ UNCHANGED <<sp, raw_frame_queue>>
    /\ UNCHANGED <<processed_frame_queue, process_task, disc, reconnect_task,
                   next_frame, next_record, ever_connected, since_attempt, reconnect_delays>>

\* except Full: raw_frame_queue.get_nowait(); an Empty is passed over
CaptureDrop ==
    /\ capture_thread.pc = "drop"
    /\ IF raw_frame_queue = <<>>
       THEN /\ capture_thread' = [pc |-> "top", frame |-> 0]
            /\ overflow' = [overflow EXCEPT !.done = TRUE]
            /\ UNCHANGED raw_frame_queue
       ELSE /\ raw_frame_queue' = GetNowait(raw_frame_queue)
            /\ capture_thread' = [capture_thread EXCEPT !.pc = "put"]
            /\ UNCHANGED overflow
    /\ UNCHANGED <<sp, processed_frame_queue, process_task, disc,
                   reconnect_task, next_frame, next_record, ever_connected, since_attempt,
                   reconnect_delays>>

\* except Full: raw_frame_queue.put_nowait((frame.copy(), time.time())); a
\* second Full is passed over
CapturePut ==
    /\ capture_thread.pc = "put"
    /\ raw_frame_queue' = PutNowait(raw_frame_queue, capture_thread.frame)
    /\ capture_thread' = [pc |-> "top", frame |-> 0]
    /\ overflow' = [overflow EXCEPT !.done = TRUE]
    /\ UNCHANGED <<sp, processed_frame_queue, process_task, disc,
                   reconnect_task, next_frame, next_record, ever_connected, since_attempt,
                   reconnect_delays>>

\* the _process_frames task created last has not left its loop
ProcessTaskAlive == process_task.pc # "none"

\* a client calls start_processing() on a connected processor whose
\* processing flag is down: a _process_frames task is created, whether or
\* not the task of the start before has left its loop; one that has not is
\* counted in earlier_tasks from here on
StartProcessing ==
    /\ LoopFree
    /\ ~sp.processing
    /\ sp.connected
    /\ ~ProcessTaskAlive \/ sp.earlier_tasks < MaxEarlier
    /\ sp' = [sp EXCEPT !.processing = TRUE,
                        !.earlier_tasks = IF ProcessTaskAlive THEN @ + 1
                                          ELSE @]
    /\ process_task' = [pc |-> "ready", frame |-> 0]
    /\ UNCHANGED <<raw_frame_queue, processed_frame_queue, capture_thread,
                   disc, reconnect_task, next_frame, next_record, overflow,
                   ever_connected, since_attempt, reconnect_delays>>

\* _process_frames: the loop test and the fetch of a frame, from the queue
\* or, when it is empty, the cached latest raw frame
ProcessGet ==
    /\ LoopFree
    /\ process_task.pc = "ready"
    /\ IF ~(sp.processing /\ sp.connected)
       THEN /\ process_task' = [pc |-> "none", frame |-> 0]
            /\ UNCHANGED <<raw_frame_queue, overflow>>
       ELSE /\ next_record <= MaxRecords
            /\ IF raw_frame_queue # <<>>
               THEN /\ process_task' = [pc |-> "pipeline",
                                        frame |-> Head(raw_frame_queue)]
                    /\ raw_frame_queue' = GetNowait(raw_frame_queue)
                    /\ overflow' = Interfere
               ELSE /\ sp.latest_raw_frame # 0
                    /\ process_task' = [pc |-> "pipeline",
                                        frame |-> sp.latest_raw_frame]
                    /\ UNCHANGED <<raw_frame_queue, overflow>>
    /\ UNCHANGED <<sp, processed_frame_queue, capture_thread, disc,
                   reconnect_task, next_frame, next_record, ever_connected, since_attempt,
                   reconnect_delays>>

\* _process_frames after _process_frame_pipeline: "Update processed frame
\* queue", dropping the oldest record when it is full
ProcessPush ==
    LET full == PutNowait(processed_frame_queue, next_record)
                    = processed_frame_queue
    IN
    /\ LoopFree
    /\ process_task.pc = "pipeline"
    /\ processed_frame_queue' =
           IF full
           THEN PutNowait(GetNowait(processed_frame_queue), next_record)
           ELSE PutNowait(processed_frame_queue, next_record)
    /\ sp' = IF full
             THEN [sp EXCEPT !.processed_from.newest = process_task.frame]
             ELSE [sp EXCEPT !.latest_processed_frame = next_record,
                             !.processed_from.newest = process_task.frame,
                             !.processed_from.latest = process_task.frame]
    /\ next_record' = next_record + 1
    /\ process_task' = [pc |-> "ready", frame |-> 0]
    /\ UNCHANGED <<raw_frame_queue, capture_thread, disc, reconnect_task,
                   next_frame, ever_connected, overflow, since_attempt,
                   reconnect_delays>>

\* a _process_frames task of an earlier start reaches the test of its loop,
\* "while self.processing and self.connected", and ends; while both flags
\* are set it goes round the loop like the task ProcessGet follows
EarlierProcessExit ==
    /\ LoopFree
    /\ sp.earlier_tasks > 0
    /\ ~(sp.processing /\ sp.connected)
    /\ sp' = [sp EXCEPT !.earlier_tasks = @ - 1]
    /\ UNCHANGED <<raw_frame_queue, processed_frame_queue, capture_thread,
                   process_task, disc, reconnect_task, next_frame, next_record,
                   ever_connected, overflow, since_attempt, reconnect_delays>>

\* a client calls stop_processing()
StopProcessing ==
    /\ LoopFree
    /\ sp.processing
    /\ sp' = [sp EXCEPT !.processing = FALSE]
    /\ UNCHANGED <<raw_frame_queue, processed_frame_queue, capture_thread,
                   process_task, disc, reconnect_task, next_frame, next_record,
                   overflow, ever_connected, since_attempt, reconnect_delays>>

\* get_latest_frame, as the frame the returned record shows (0 for None):
\* the newest record of the processed queue, else the newest frame of the raw
\* queue, else the cached processed record, else the cached raw frame
GetLatestFrame ==
    IF processed_frame_queue # <<>>
    THEN sp.processed_from.newest
    ELSE IF raw_frame_queue # <<>>
    THEN raw_frame_queue[Len(raw_frame_queue)]
    ELSE IF sp.latest_processed_frame # 0
    THEN sp.processed_from.latest
    ELSE sp.latest_raw_frame

\* _attempt_reconnect: asyncio.sleep(2.0) before connect(), asyncio.sleep(5.0)
\* after a failed one
ReconnectWait == 2
RetryWait_Long == 30 - 1
RetryWait == 5

\* _trigger_reconnect, called by the capture thread.  reconnecting is set
\* first; asyncio.get_event_loop() then raises RuntimeError in a thread that
\* has no event loop, which the capture loop catches, and nothing is
\* scheduled; the other outcome is the one the call is written for,
\* _attempt_reconnect handed to the event loop
TriggerReconnect ==
    IF sp.reconnecting
    THEN UNCHANGED <<reconnect_task, since_attempt, reconnect_delays>>
    ELSE \/ UNCHANGED <<reconnect_task, since_attempt, reconnect_delays>>
         \/ /\ reconnect_task = "none"
            /\ reconnect_task' = "scheduled"
            /\ since_attempt' = 0
            /\ reconnect_delays' = <<>>

\* capture.read() fails: the errors are counted and, beyond the threshold,
\* a reconnect is requested
CaptureReadFails ==
    /\ capture_thread.pc = "read"
    /\ capture_thread' = [pc |-> "top", frame |-> 0]
    /\ IF CountError(sp.consecutive_errors) > ErrorThreshold
       THEN /\ sp' = [sp EXCEPT !.consecutive_errors = CountError(@),
                                !.reconnecting = TRUE]
            /\ TriggerReconnect
       ELSE /\ sp' = [sp EXCEPT !.consecutive_errors = CountError(@)]
            /\ UNCHANGED <<reconnect_task, since_attempt, reconnect_delays>>
    /\ UNCHANGED <<raw_frame_queue, processed_frame_queue, process_task, disc,
                   next_frame, next_record, ever_connected, overflow>>

\* _attempt_reconnect starts: await self.disconnect()
AttemptDisconnect ==
    /\ LoopFree
    /\ reconnect_task = "scheduled"
    /\ reconnect_task' = "disconnect"
    /\ DisconnectBegin("reconnect")
    /\ UNCHANGED <<raw_frame_queue, processed_frame_queue, capture_thread,
                   process_task, next_frame, next_record, ever_connected,
                   overflow, since_attempt, reconnect_delays>>

\* _attempt_reconnect after asyncio.sleep(2.0): connect(); reconnected, it
\* ends (processing is False since the disconnect); failed, it goes on to
\* asyncio.sleep(5.0)
AttemptConnect(opened) ==
    /\ LoopFree
    /\ reconnect_task = "sleep2"
    /\ ~sp.connected
    /\ Len(reconnect_delays) < MaxAttempts
    /\ IF opened
       THEN /\ ConnectRtsp(TRUE)
            /\ reconnect_task' = "finally"
            /\ reconnect_delays' = <<>>
       ELSE /\ ConnectRtsp(FALSE)
            /\ reconnect_task' = "sleep5"
            /\ reconnect_delays' =
                   Append(reconnect_delays, since_attempt + ReconnectWait)
    /\ since_attempt' = 0
    /\ UNCHANGED <<raw_frame_queue, processed_frame_queue, process_task, disc,
                   next_frame, next_record, overflow>>

\* _attempt_reconnect reaches finally: reconnecting = False; after a failed
\* connect() and asyncio.sleep(5.0) it has first handed the next
\* _attempt_reconnect to the loop
AttemptFinally ==
    /\ LoopFree
    /\ reconnect_task \in {"finally", "sleep5"}
    /\ sp' = [sp EXCEPT !.reconnecting = FALSE]
    /\ IF reconnect_task = "sleep5"
       THEN /\ reconnect_task' = "scheduled"
            /\ since_attempt' = since_attempt + RetryWait
       ELSE /\ reconnect_task' = "none"
            /\ UNCHANGED since_attempt
    /\ UNCHANGED <<raw_frame_queue, processed_frame_queue, capture_thread,
                   process_task, disc, next_frame, next_record, ever_connected,
                   overflow, reconnect_delays>>

(***************************************************************************)
(* _process_frame_pipeline: the detectors run in turn on the frame, each    *)
(* drawing on processed_frame and adding its key to results                 *)
(***************************************************************************)
\* the detectors in the order the pipeline awaits them
Detectors == <<"people", "faces", "templates">>
DetectorSet == {Detectors[i] : i \in 1..Len(Detectors)}
\* the detector that raises while a frame is processed, "none" when none does
Failures == {"none"} \cup DetectorSet

\* the detectors that have run when detector d is awaited
RanBefore(d) ==
    {Detectors[i] : i \in {j \in 1..Len(Detectors) :
                              \E k \in 1..Len(Detectors) :
                                  Detectors[k] = d /\ j < k}}

InitPipeline ==
    pipeline_result = [annotations |-> {}, results |-> {}, error |-> "none"]

\* _process_frame_pipeline(frame): "return processed_frame, results" at the
\* end of the try block, "return frame, {}" from "except Exception"
ProcessFramePipeline_Partial(failure) ==
    IF failure = "none"
    THEN [annotations |-> DetectorSet, results |-> DetectorSet, error |-> "none"]
    ELSE [annotations |-> RanBefore(failure), results |-> RanBefore(failure),
          error |-> failure]

ProcessFramePipeline(failure) ==
    IF failure = "none"
    THEN [annotations |-> DetectorSet, results |-> DetectorSet, error |-> "none"]
    ELSE [annotations |-> {}, results |-> {}, error |-> failure]

\* a tick of _process_frames from the return of _process_frame_pipeline on:
\* the frame it returned is queued as the next record
ProcessFrame(failure) ==
    /\ ProcessPush
    /\ pipeline_result' = ProcessFramePipeline(failure)

(***************************************************************************)
(* app/core/camera_manager.py                                              *)
(***************************************************************************)
\* self.max_cameras, the budget of cameras processed at once: the manager is
\* followed with room for two cameras and three cameras in the database
max_cameras == 2
CameraIds == {1, 2, 3}
\* a viewer of each camera
Viewers == {"viewer1", "viewer2"}
Viewed(k) == IF k = "viewer1" THEN 1 ELSE 2
DisabledCameras == {1}
Callers == {"monitor"} \cup Viewers

NoCall == [op |-> "none", camera_id |-> 0, pc |-> "none"]
\* main.py's shutdown handler, the caller of CameraManager.shutdown, and its
\* call once it has returned
ShutdownCaller == "shutdown"
ShutdownReturned == [op |-> "shutdown", camera_id |-> 0, pc |-> "returned"]
MonitorAsleep == [pc |-> "sleep", todo |-> <<>>, cameras_to_keep |-> {},
                  enabled_ids |-> {}, priority_cameras |-> <<>>,
                  regular_cameras |-> <<>>]

\* the processor add_camera builds: StreamProcessor(camera_id=..., rtsp_url=...,
\* ...) as camera_manager.py calls it, not yet connected, not processing
StreamProcessorNew == [connected |-> FALSE, processing |-> FALSE]

\* processor.process_stream(), which camera_manager.py starts as a task: the
\* processor is processing from the task's first step on
ProcessStream(p) == [p EXCEPT !.processing = TRUE]

\* StreamProcessor.disconnect as the manager sees it
ProcessorDisconnect(p) == [p EXCEPT !.connected = FALSE, !.processing = FALSE]

\* CameraManager.__init__
InitCamera ==
    /\ camera_manager = [cameras |-> <<>>,
                         processor |-> [c \in CameraIds |-> StreamProcessorNew],
                         cameras_in_use |-> {},
                         active_cameras |-> 0,
                         lock |-> "none",
                         connection_tasks |-> [c \in CameraIds |-> "none"]]
    /\ enabled_cameras = CameraIds
    /\ monitor = MonitorAsleep
    /\ call = [k \in Callers \cup {ShutdownCaller} |-> NoCall]
    /\ evicted_in_use = 0
    /\ refused_add = 0

RECURSIVE SelectSeqIn(_, _)
SelectSeqIn(s, keep) ==
    IF s = <<>> THEN <<>>
    ELSE IF Head(s) \in keep THEN <<Head(s)>> \o SelectSeqIn(Tail(s), keep)
    ELSE SelectSeqIn(Tail(s), keep)

Registered == {camera_manager.cameras[i] : i \in 1..Len(camera_manager.cameras)}
Processing == {c \in Registered : camera_manager.processor[c].processing}

\* a Python slice s[:n], n of either sign
SliceTo(s, n) ==
    IF n >= Len(s) THEN s
    ELSE IF n >= 0 THEN SubSeq(s, 1, n)
    ELSE IF Len(s) + n > 0 THEN SubSeq(s, 1, Len(s) + n)
    ELSE <<>>

\* a call of the manager returns to its caller; the monitor goes on to the
\* next camera of the loop it is in
Returns(k) ==
    /\ call' = [call EXCEPT ![k] = NoCall]
    /\ monitor' = IF k = "monitor" THEN [monitor EXCEPT !.todo = Tail(@)]
                  ELSE monitor

\* an exception leaves the call; in the monitor "except Exception" ends the
\* tick
Raises(k) ==
    /\ call' = [call EXCEPT ![k] = NoCall]
    /\ monitor' = IF k = "monitor" THEN MonitorAsleep ELSE monitor

Suspends(k, op, camera_id, pc) ==
    /\ call' = [call EXCEPT ![k] = [op |-> op, camera_id |-> camera_id,
                                    pc |-> pc]]
    /\ UNCHANGED monitor

\* the budget has room for camera_id beside the cameras processing now
HadSlot(camera_id) == Cardinality(Processing \ {camera_id}) < max_cameras
\* add_camera ends: the first camera it left not processing although a slot
\* was free and no connection failed is kept
Added(camera_id, connect, processing) ==
    IF refused_add = 0 /\ HadSlot(camera_id) /\ connect # "failed" /\ ~processing
    THEN camera_id
    ELSE refused_add

\* add_camera from "Create a new processor" on.  The source under
\* stream_processor.py requires a name that the call does not pass, and the
\* call raises TypeError with the lock released on the way out; a processor
\* that takes the call is registered and its connection task awaited with
\* the lock held
AddCameraNew(k, camera_id) ==
    \/ /\ UNCHANGED camera_manager
       /\ Raises(k)
       /\ refused_add' = Added(camera_id, "none", FALSE)
    \/ /\ camera_manager' =
              [camera_manager EXCEPT
                  !.cameras = Append(@, camera_id),
                  !.processor[camera_id] = StreamProcessorNew,
                  !.connection_tasks[camera_id] = "pending",
                  !.lock = k]
       /\ Suspends(k, "add", camera_id, "task")
       /\ UNCHANGED refused_add

\* add_camera, "If camera already exists": start_processing is True in every
\* call of the monitor and of ensure_camera_connected
AddCameraExisting(k, camera_id) ==
    LET p == camera_manager.processor[camera_id] IN
    IF p.processing
    THEN /\ UNCHANGED camera_manager
         /\ Returns(k)
         /\ refused_add' = Added(camera_id, "none", TRUE)
    ELSE IF ~p.connected
    THEN /\ camera_manager' = [camera_manager EXCEPT !.lock = k]
         /\ Suspends(k, "add", camera_id, "connect")
         /\ UNCHANGED refused_add
    ELSE /\ camera_manager' =
                [camera_manager EXCEPT
                    !.processor[camera_id] = ProcessStream(p),
                    !.active_cameras = @ + 1]
         /\ Returns(k)
         /\ refused_add' = Added(camera_id, "none", TRUE)

\* add_camera inside "async with self.lock", the lock just taken
AddCameraLocked(k, camera_id) ==
    /\ UNCHANGED evicted_in_use
    /\ IF /\ camera_id \notin Registered
          /\ camera_manager.active_cameras >= max_cameras
          /\ camera_id \notin camera_manager.cameras_in_use
       THEN /\ UNCHANGED camera_manager
            /\ Returns(k)
            /\ refused_add' = Added(camera_id, "none", FALSE)
       ELSE IF camera_manager.connection_tasks[camera_id] = "pending"
       THEN /\ camera_manager' = [camera_manager EXCEPT !.lock = k]
            /\ Suspends(k, "add", camera_id, "task_wait")
            /\ UNCHANGED refused_add
       ELSE IF camera_id \in Registered
       THEN AddCameraExisting(k, camera_id)
       ELSE AddCameraNew(k, camera_id)

\* add_camera up to the lock: taken at once when free
AddCamera(k, camera_id) ==
    IF camera_manager.lock = "none"
    THEN AddCameraLocked(k, camera_id)
    ELSE /\ Suspends(k, "add", camera_id, "lock")
         /\ UNCHANGED <<camera_manager, evicted_in_use, refused_add>>

AddCameraLockAcquired(k) ==
    /\ call[k].op = "add"
    /\ call[k].pc = "lock"
    /\ camera_manager.lock = "none"
    /\ AddCameraLocked(k, call[k].camera_id)
    /\ UNCHANGED enabled_cameras

\* the connection task, _connect_camera: processor.connect() and, connected,
\* process_stream() started
ConnectCamera(camera_id, success) ==
    /\ camera_manager.connection_tasks[camera_id] = "pending"
    /\ LET p == camera_manager.processor[camera_id] IN
       IF camera_id \notin Registered
       THEN camera_manager' = [camera_manager EXCEPT
                !.connection_tasks[camera_id] = "done_false"]
       ELSE IF success
       THEN camera_manager' = [camera_manager EXCEPT
                !.processor[camera_id] =
                    ProcessStream([p EXCEPT !.connected = TRUE]),
                !.connection_tasks[camera_id] = "done_true"]
       ELSE camera_manager' = [camera_manager EXCEPT
                !.connection_tasks[camera_id] = "done_false"]
    /\ UNCHANGED <<enabled_cameras, monitor, call, evicted_in_use, refused_add>>

\* add_camera after the connection task it awaits with the lock held
AddCameraAfterTask(k) ==
    LET camera_id == call[k].camera_id
        success == camera_manager.connection_tasks[camera_id] = "done_true"
        processing == camera_manager.processor[camera_id].processing
    IN  /\ call[k].op = "add"
        /\ call[k].pc = "task"
        /\ camera_manager.connection_tasks[camera_id] # "pending"
        /\ camera_manager' =
               [camera_manager EXCEPT
                   !.active_cameras = IF success /\ processing THEN @ + 1 ELSE @,
                   !.lock = "none"]
        /\ Returns(k)
        /\ refused_add' = Added(camera_id, IF success THEN "ok" ELSE "failed",
                             processing)
        /\ UNCHANGED <<enabled_cameras, evicted_in_use>>

\* add_camera after "return await self._connection_tasks[camera_id]", the
\* task of another call
AddCameraAfterTaskWait(k) ==
    LET camera_id == call[k].camera_id
        success == camera_manager.connection_tasks[camera_id] = "done_true"
    IN  /\ call[k].op = "add"
        /\ call[k].pc = "task_wait"
        /\ camera_manager.connection_tasks[camera_id] # "pending"
        /\ camera_manager' = [camera_manager EXCEPT !.lock = "none"]
        /\ Returns(k)
        /\ refused_add' = Added(camera_id, IF success THEN "ok" ELSE "failed",
                             camera_manager.processor[camera_id].processing)
        /\ UNCHANGED <<enabled_cameras, evicted_in_use>>

\* add_camera of a registered camera after "await processor.connect()"
AddCameraAfterConnect(k, success) ==
    LET camera_id == call[k].camera_id
        p == camera_manager.processor[camera_id]
    IN  /\ call[k].op = "add"
        /\ call[k].pc = "connect"
        /\ camera_manager' =
               [camera_manager EXCEPT
                   !.processor[camera_id] =
                       ProcessStream([p EXCEPT !.connected = success]),
                   !.active_cameras = @ + 1,
                   !.lock = "none"]
        /\ Returns(k)
        /\ refused_add' = Added(camera_id, IF success THEN "ok" ELSE "failed",
                             TRUE)
        /\ UNCHANGED <<enabled_cameras, evicted_in_use>>

\* remove_camera from "Disconnect processor" on
RemoveCameraFinish(k, camera_id) ==
    LET was_active == camera_manager.processor[camera_id].processing IN
    /\ camera_manager' =
           [camera_manager EXCEPT
               !.processor[camera_id] = ProcessorDisconnect(@),
               !.cameras = SelectSeqIn(@, Registered \ {camera_id}),
               !.cameras_in_use = @ \ {camera_id},
               !.active_cameras = IF was_active THEN @ - 1 ELSE @,
               !.lock = "none"]
    /\ evicted_in_use' =
           IF /\ k = "monitor"
              /\ camera_id \in camera_manager.cameras_in_use
              /\ evicted_in_use = 0
           THEN camera_id
           ELSE evicted_in_use
    /\ Returns(k)
    /\ UNCHANGED refused_add

\* remove_camera inside "async with self.lock", the lock just taken
RemoveCameraLocked(k, camera_id) ==
    IF camera_id \notin Registered
    THEN /\ Returns(k)
         /\ UNCHANGED <<camera_manager, evicted_in_use, refused_add>>
    ELSE IF camera_manager.connection_tasks[camera_id] = "pending"
    THEN /\ camera_manager' =
                [camera_manager EXCEPT
                    !.connection_tasks[camera_id] = "cancelled",
                    !.lock = k]
         /\ Suspends(k, "remove", camera_id, "cancel")
         /\ UNCHANGED <<evicted_in_use, refused_add>>
    ELSE RemoveCameraFinish(k, camera_id)

\* remove_camera up to the lock: taken at once when free
RemoveCamera(k, camera_id) ==
    IF camera_manager.lock = "none"
    THEN RemoveCameraLocked(k, camera_id)
    ELSE /\ Suspends(k, "remove", camera_id, "lock")
         /\ UNCHANGED <<camera_manager, evicted_in_use, refused_add>>

RemoveCameraLockAcquired(k) ==
    /\ call[k].op = "remove"
    /\ call[k].pc = "lock"
    /\ camera_manager.lock = "none"
    /\ RemoveCameraLocked(k, call[k].camera_id)
    /\ UNCHANGED enabled_cameras

\* remove_camera after awaiting the connection task it cancelled
RemoveCameraAfterCancel(k) ==
    /\ call[k].op = "remove"
    /\ call[k].pc = "cancel"
    /\ RemoveCameraFinish(k, call[k].camera_id)
    /\ UNCHANGED enabled_cameras

\* _background_monitor_task wakes: the enabled cameras are read, the active
\* ones counted, the cameras in use put first
MonitorWake ==
    LET enabled == SortedSeq(enabled_cameras)
        priority_cameras ==
            SelectSeqIn(enabled, camera_manager.cameras_in_use)
        regular_cameras ==
            SelectSeqIn(enabled, CameraIds \ camera_manager.cameras_in_use)
        all_cameras == priority_cameras \o regular_cameras
        kept == SubSeq(all_cameras, 1, max_cameras)
    IN  /\ monitor.pc = "sleep"
        /\ camera_manager' =
               [camera_manager EXCEPT !.active_cameras = Cardinality(Processing)]
        /\ monitor' =
               IF Len(all_cameras) > max_cameras
               THEN [pc |-> "evict", todo |-> camera_manager.cameras,
                     cameras_to_keep |-> {kept[i] : i \in 1..Len(kept)},
                     enabled_ids |-> enabled_cameras,
                     priority_cameras |-> priority_cameras,
                     regular_cameras |-> regular_cameras]
               ELSE [pc |-> "priority", todo |-> priority_cameras,
                     cameras_to_keep |-> {},
                     enabled_ids |-> enabled_cameras,
                     priority_cameras |-> priority_cameras,
                     regular_cameras |-> regular_cameras]
        /\ UNCHANGED <<enabled_cameras, call, evicted_in_use, refused_add>>

\* one camera of "for camera_id in list(self.cameras.keys())", the removal
\* of cameras beyond the limit
MonitorEvict ==
    /\ monitor.pc = "evict"
    /\ call["monitor"] = NoCall
    /\ IF monitor.todo = <<>>
       THEN /\ monitor' = [monitor EXCEPT !.pc = "priority",
                                          !.todo = monitor.priority_cameras]
            /\ UNCHANGED <<camera_manager, call, evicted_in_use, refused_add>>
       ELSE IF /\ Head(monitor.todo) \notin monitor.cameras_to_keep
               /\ Head(monitor.todo) \notin camera_manager.cameras_in_use
       THEN RemoveCamera("monitor", Head(monitor.todo))
       ELSE /\ monitor' = [monitor EXCEPT !.todo = Tail(@)]
            /\ UNCHANGED <<camera_manager, call, evicted_in_use, refused_add>>
    /\ UNCHANGED enabled_cameras

\* one camera of "for camera in priority_cameras" or of "for camera in
\* regular_cameras[:remaining_slots]"; a registered camera that is not
\* processing is connected and its process_stream() started
MonitorEnsure(success) ==
    /\ monitor.pc \in {"priority", "regular"}
    /\ call["monitor"] = NoCall
    /\ IF monitor.todo = <<>>
       THEN /\ monitor' =
                   IF monitor.pc = "priority"
                   THEN [monitor EXCEPT
                            !.pc = "regular",
                            !.todo = SliceTo(monitor.regular_cameras,
                                max_cameras - camera_manager.active_cameras)]
                   ELSE [monitor EXCEPT
                            !.pc = "cleanup",
                            !.todo = SelectSeqIn(camera_manager.cameras,
                                         CameraIds \ monitor.enabled_ids)]
            /\ UNCHANGED <<camera_manager, call, evicted_in_use, refused_add>>
       ELSE LET camera_id == Head(monitor.todo)
                p == camera_manager.processor[camera_id]
            IN  IF camera_id \notin Registered
                THEN AddCamera("monitor", camera_id)
                ELSE /\ camera_manager' =
                            IF p.processing THEN camera_manager
                            ELSE [camera_manager EXCEPT
                                     !.processor[camera_id] = ProcessStream(
                                         [p EXCEPT !.connected =
                                              p.connected \/ success])]
                     /\ monitor' = [monitor EXCEPT !.todo = Tail(@)]
                     /\ UNCHANGED <<call, evicted_in_use, refused_add>>
    /\ UNCHANGED enabled_cameras

\* one camera of "for camera_id in disabled_ids"
MonitorCleanup ==
    /\ monitor.pc = "cleanup"
    /\ call["monitor"] = NoCall
    /\ IF monitor.todo = <<>>
       THEN /\ monitor' = MonitorAsleep
            /\ UNCHANGED <<camera_manager, call, evicted_in_use, refused_add>>
       ELSE IF Head(monitor.todo) \notin camera_manager.cameras_in_use
       THEN RemoveCamera("monitor", Head(monitor.todo))
       ELSE /\ monitor' = [monitor EXCEPT !.todo = Tail(@)]
            /\ UNCHANGED <<camera_manager, call, evicted_in_use, refused_add>>
    /\ UNCHANGED enabled_cameras

\* ensure_camera_connected, called for a viewer, up to its first await
EnsureCameraConnected(k, camera_id) ==
    LET p == camera_manager.processor[camera_id] IN
    /\ call[k] = NoCall
    /\ IF camera_id \notin Registered
       THEN /\ Suspends(k, "ensure", camera_id, "db")
            /\ UNCHANGED camera_manager
       ELSE IF p.connected /\ p.processing
       THEN /\ camera_manager' =
                   [camera_manager EXCEPT !.cameras_in_use = @ \cup {camera_id}]
            /\ UNCHANGED <<call, monitor>>
       ELSE IF camera_manager.connection_tasks[camera_id] = "pending"
       THEN /\ camera_manager' =
                   [camera_manager EXCEPT !.cameras_in_use = @ \cup {camera_id}]
            /\ Suspends(k, "ensure", camera_id, "task")
       ELSE IF p.connected
       THEN /\ camera_manager' =
                   [camera_manager EXCEPT
                       !.cameras_in_use = @ \cup {camera_id},
                       !.processor[camera_id] = ProcessStream(p)]
            /\ UNCHANGED <<call, monitor>>
       ELSE /\ camera_manager' =
                   [camera_manager EXCEPT
                       !.cameras_in_use = @ \cup {camera_id},
                       !.connection_tasks[camera_id] = "pending"]
            /\ Suspends(k, "ensure", camera_id, "task")
    /\ UNCHANGED <<enabled_cameras, evicted_in_use, refused_add>>

\* ensure_camera_connected after "await session.get(Camera, camera_id)"
EnsureAfterDb(k) ==
    /\ call[k].op = "ensure"
    /\ call[k].pc = "db"
    /\ IF call[k].camera_id \in enabled_cameras
       THEN AddCamera(k, call[k].camera_id)
       ELSE /\ Returns(k)
            /\ UNCHANGED <<camera_manager, evicted_in_use, refused_add>>
    /\ UNCHANGED enabled_cameras

\* ensure_camera_connected after the connection task it awaits
EnsureAfterTask(k) ==
    /\ call[k].op = "ensure"
    /\ call[k].pc = "task"
    /\ camera_manager.connection_tasks[call[k].camera_id] # "pending"
    /\ Returns(k)
    /\ UNCHANGED <<camera_manager, enabled_cameras, evicted_in_use, refused_add>>

\* create_peer_connection's "await camera_manager.ensure_camera_connected(
\* camera_id)" for a camera that is registered, connected and processing:
\* the manager marks the camera in use and returns True without suspending,
\* and create_peer_connection goes on to build the track
ViewerEnsured(p) ==
    LET camera_id == conn[p].camera
        processor == camera_manager.processor[camera_id]
    IN  /\ conn[p].step = "ensure"
        /\ camera_id \in Registered
        /\ processor.connected /\ processor.processing
        /\ EnsureCameraConnected("viewer1", camera_id)
        /\ EnsureReturns(p)

\* release_camera: the camera leaves cameras_in_use and, at the budget, its
\* processing flag is lowered and the count of active cameras taken down
ReleaseCamera(camera_id) ==
    LET p == camera_manager.processor[camera_id]
        stops == /\ camera_manager.active_cameras >= max_cameras
                 /\ camera_id \in Registered
                 /\ p.processing
    IN  /\ camera_id \in camera_manager.cameras_in_use
        /\ camera_manager' =
               [camera_manager EXCEPT
                   !.cameras_in_use = @ \ {camera_id},
                   !.processor[camera_id].processing =
                       IF stops THEN FALSE ELSE @,
                   !.active_cameras = IF stops THEN @ - 1 ELSE @]
        /\ UNCHANGED <<enabled_cameras, monitor, call, evicted_in_use,
                       refused_add>>

\* a client of the API calls update_camera, which is add_camera, for an
\* enabled camera
UpdateCamera(k, camera_id) ==
    /\ call[k] = NoCall
    /\ camera_id \in enabled_cameras
    /\ AddCamera(k, camera_id)
    /\ UNCHANGED enabled_cameras

\* a client of the API calls remove_camera
ClientRemoveCamera(k, camera_id) ==
    /\ call[k] = NoCall
    /\ RemoveCamera(k, camera_id)
    /\ UNCHANGED enabled_cameras

\* _background_monitor_task has ended: CancelledError, which none of its
\* "except Exception" clauses catches, has left the coroutine
MonitorDone == [MonitorAsleep EXCEPT !.pc = "done"]

\* the monitor is in remove_camera at "await self._connection_tasks[
\* camera_id]", the task it has just cancelled, inside "try ... except
\* asyncio.CancelledError: pass": a CancelledError thrown into the monitor
\* at this await is caught there and the monitor goes on
MonitorSwallowsCancel ==
    /\ call["monitor"].op = "remove"
    /\ call["monitor"].pc = "cancel"

\* shutdown inside "async with self.lock", the lock just taken, up to
\* "await processor.disconnect()"
ShutdownLocked ==
    /\ camera_manager' = [camera_manager EXCEPT !.lock = ShutdownCaller]
    /\ Suspends(ShutdownCaller, "shutdown", 0, "disconnect")

\* shutdown at "async with self.lock": taken at once when free
ShutdownTakeLock ==
    IF camera_manager.lock = "none"
    THEN ShutdownLocked
    ELSE /\ Suspends(ShutdownCaller, "shutdown", 0, "lock")
         /\ UNCHANGED camera_manager

\* shutdown up to "await self._background_task": the monitor task is
\* cancelled.  CancelledError is thrown into the monitor where it is
\* suspended; it leaves the coroutine, releasing the lock the monitor holds
\* and cancelling the connection task the monitor awaits in add_camera,
\* unless the monitor swallows it
Shutdown ==
    LET m == call["monitor"]
        awaited == m.op = "add" /\ m.pc \in {"task", "task_wait"}
        suspended == [op |-> "shutdown", camera_id |-> 0, pc |-> "monitor"]
    IN  /\ call[ShutdownCaller] = NoCall
        /\ IF MonitorSwallowsCancel
           THEN /\ call' = [call EXCEPT ![ShutdownCaller] = suspended]
                /\ UNCHANGED <<camera_manager, monitor>>
           ELSE /\ call' = [call EXCEPT !["monitor"] = NoCall,
                                        ![ShutdownCaller] = suspended]
                /\ monitor' = MonitorDone
                /\ camera_manager' =
                       [camera_manager EXCEPT
                           !.lock = IF @ = "monitor" THEN "none" ELSE @,
                           !.connection_tasks =
                               [c \in CameraIds |->
                                   IF awaited /\ c = m.camera_id
                                              /\ @[c] = "pending"
                                   THEN "cancelled" ELSE @[c]]]
        /\ UNCHANGED <<enabled_cameras, evicted_in_use, refused_add>>

\* shutdown after "await self._background_task": the monitor task is done
ShutdownAfterMonitor ==
    /\ call[ShutdownCaller].pc = "monitor"
    /\ monitor.pc = "done"
    /\ ShutdownTakeLock
    /\ UNCHANGED <<enabled_cameras, evicted_in_use, refused_add>>

ShutdownLockAcquired ==
    /\ call[ShutdownCaller].pc = "lock"
    /\ camera_manager.lock = "none"
    /\ ShutdownLocked
    /\ UNCHANGED <<enabled_cameras, evicted_in_use, refused_add>>

\* shutdown from the disconnects to its end: every processor disconnected,
\* the pending connection tasks cancelled, the tables cleared, the lock
\* released
ShutdownFinish ==
    /\ call[ShutdownCaller].pc = "disconnect"
    /\ camera_manager' =
           [camera_manager EXCEPT
               !.processor = [c \in CameraIds |->
                                 IF c \in Registered
                                 THEN ProcessorDisconnect(@[c]) ELSE @[c]],
               !.cameras = <<>>,
               !.cameras_in_use = {},
               !.connection_tasks = [c \in CameraIds |-> "none"],
               !.lock = "none"]
    /\ call' = [call EXCEPT ![ShutdownCaller] = ShutdownReturned]
    /\ UNCHANGED <<monitor, enabled_cameras, evicted_in_use, refused_add>>

\* a camera is disabled in the database
DisableCamera(camera_id) ==
    /\ camera_id \in enabled_cameras
    /\ enabled_cameras' = enabled_cameras \ {camera_id}
    /\ UNCHANGED <<camera_manager, monitor, call, evicted_in_use, refused_add>>

(***************************************************************************)
(* Specifications                                                          *)
(***************************************************************************)
(***************************************************************************)
(* app/core/camera_manager.py: get_jpeg_frame and the frame cache           *)
(***************************************************************************)
\* the cameras snapshots are asked of and the requests that ask
SnapshotCameras == {1, 2}
Requests == {"request1", "request2"}

\* CameraManager.__init__: cache_expiry = 1.0, "Cache frames for 1 second"
cache_expiry == 1

NoJpegCall == [pc |-> "none", camera_id |-> 0, high_quality |-> FALSE,
               returned |-> <<>>, cached |-> FALSE]

InitCache ==
    /\ frame_cache = <<>>
    /\ clock = 0
    /\ latest_frame = [c \in SnapshotCameras |-> 0]
    /\ jpeg_call = [r \in Requests |-> NoJpegCall]

\* cv2.imencode(".jpg", frame, [IMWRITE_JPEG_QUALITY, quality]).tobytes():
\* the bytes are those of this frame at this quality
Imencode(frame, quality) == [frame |-> frame, quality |-> quality]

\* _create_no_signal_frame: a blank image, frame 0, encoded at quality 80
CreateNoSignalFrame == Imencode(0, 80)

\* _create_error_frame: a blank image tinted red, frame -1, encoded at
\* quality 80
CreateErrorFrame == Imencode(-1, 80)

\* StreamProcessor.get_latest_frame() as get_frame calls it, without await:
\* the call of an "async def" returns a coroutine object, which would give
\* the latest frame if it were awaited
GetLatestFrameCall(camera_id) ==
    [kind |-> "coroutine", frame |-> latest_frame[camera_id]]

\* get_frame: None when ensure_camera_connected fails, else what
\* get_latest_frame() returned
GetFrame(camera_id, connected) ==
    IF connected THEN GetLatestFrameCall(camera_id)
    ELSE [kind |-> "None", frame |-> 0]

\* "if time.time() - cache_entry["timestamp"] <= self.cache_expiry"
CacheValid(cache_entry) == clock - cache_entry.timestamp <= cache_expiry

\* "if not high_quality: self.frame_cache[camera_id] = {...}"
CacheResult(camera_id, high_quality, jpeg_bytes) ==
    IF ~high_quality
    THEN DictPut(frame_cache, camera_id,
                 [frame |-> jpeg_bytes, timestamp |-> clock])
    ELSE frame_cache

\* get_jpeg_frame returns to the request, from the cache ("Returning cached
\* JPEG frame") or not
JpegReturns(r, camera_id, high_quality, bytes, cached) ==
    jpeg_call' = [jpeg_call EXCEPT ![r] =
                     [pc |-> "returned", camera_id |-> camera_id,
                      high_quality |-> high_quality, returned |-> <<bytes>>,
                      cached |-> cached]]

\* a request calls get_jpeg_frame: the cached bytes are returned when the
\* request is of low quality and the entry is valid, else the call awaits
\* ensure_camera_connected
GetJpegFrame(r, camera_id, high_quality) ==
    /\ jpeg_call[r].pc \in {"none", "returned"}
    /\ IF /\ ~high_quality
          /\ camera_id \in DOMAIN frame_cache
          /\ CacheValid(frame_cache[camera_id])
       THEN JpegReturns(r, camera_id, high_quality,
                        frame_cache[camera_id].frame, TRUE)
       ELSE jpeg_call' = [jpeg_call EXCEPT ![r] =
                             [pc |-> "ensure", camera_id |-> camera_id,
                              high_quality |-> high_quality, returned |-> <<>>,
                              cached |-> FALSE]]
    /\ UNCHANGED <<frame_cache, clock, latest_frame>>

\* get_jpeg_frame after ensure_camera_connected: not connected, the
\* "No signal" frame is returned; connected, the call awaits get_frame
JpegAfterEnsure(r, connected) ==
    /\ jpeg_call[r].pc = "ensure"
    /\ IF connected
       THEN jpeg_call' = [jpeg_call EXCEPT ![r].pc = "get_frame"]
       ELSE JpegReturns(r, jpeg_call[r].camera_id, jpeg_call[r].high_quality,
                        CreateNoSignalFrame, FALSE)
    /\ UNCHANGED <<frame_cache, clock, latest_frame>>

\* get_jpeg_frame after get_frame: None gives the "No signal" frame; a
\* (frame, timestamp) pair is encoded, cached for a request of low quality,
\* and returned; "frame, timestamp = frame_data" raises TypeError on anything
\* else, and "except Exception" returns the error frame
JpegAfterGetFrame(r, connected) ==
    LET camera_id == jpeg_call[r].camera_id
        high_quality == jpeg_call[r].high_quality
        frame_data == GetFrame(camera_id, connected)
        jpeg_bytes == Imencode(frame_data.frame, IF high_quality THEN 95 ELSE 80)
    IN
    /\ jpeg_call[r].pc = "get_frame"
    /\ IF frame_data.kind = "None"
       THEN /\ JpegReturns(r, camera_id, high_quality, CreateNoSignalFrame,
                           FALSE)
            /\ UNCHANGED frame_cache
       ELSE IF frame_data.kind = "tuple"
       THEN /\ frame_cache' = CacheResult(camera_id, high_quality, jpeg_bytes)
            /\ JpegReturns(r, camera_id, high_quality, jpeg_bytes, FALSE)
       ELSE /\ JpegReturns(r, camera_id, high_quality, CreateErrorFrame, FALSE)
            /\ UNCHANGED frame_cache
    /\ UNCHANGED <<clock, latest_frame>>

\* the processor of a camera has a new latest frame
NewLatestFrame(camera_id) ==
    /\ latest_frame[camera_id] < MaxShots
    /\ latest_frame' = [latest_frame EXCEPT ![camera_id] = @ + 1]
    /\ UNCHANGED <<frame_cache, clock, jpeg_call>>

\* a second passes
ClockTick ==
    /\ clock < MaxClock
    /\ clock' = clock + 1
    /\ UNCHANGED <<frame_cache, latest_frame, jpeg_call>>

Init ==
    /\ InitHls /\ InitWebRTC /\ InitStream /\ InitCamera
    /\ InitPipeline /\ InitCache

NextHls ==
    \/ \E t \in Tasks, c \in RequestCameraIds : StartStream(t, c) /\ UNCHANGED <<webrtcVars, spVars, cmVars, pipeVars, cacheVars>>
    \/ \E t \in Tasks : StartCheck(t) /\ UNCHANGED <<webrtcVars, spVars, cmVars, pipeVars, cacheVars>>
    \/ \E t \in Tasks : StartSpawn(t) /\ UNCHANGED <<webrtcVars, spVars, cmVars, pipeVars, cacheVars>>
    \/ \E t \in Tasks : StartWake(t) /\ UNCHANGED <<webrtcVars, spVars, cmVars, pipeVars, cacheVars>>
    \/ \E t \in Tasks, s \in SessionIds : StopStream(t, s) /\ UNCHANGED <<webrtcVars, spVars, cmVars, pipeVars, cacheVars>>
    \/ \E t \in Tasks : CleanupWake(t) /\ UNCHANGED <<webrtcVars, spVars, cmVars, pipeVars, cacheVars>>
    \/ \E t \in Tasks : Respond(t) /\ UNCHANGED <<webrtcVars, spVars, cmVars, pipeVars, cacheVars>>
    \/ \E s \in SessionIds : PlaylistWritten(s) /\ UNCHANGED <<webrtcVars, spVars, cmVars, pipeVars, cacheVars>>
    \/ \E s \in SessionIds : ProcessExits(s) /\ UNCHANGED <<webrtcVars, spVars, cmVars, pipeVars, cacheVars>>

SpecHls == Init /\ [][NextHls]_vars

\* the sessions of one client under cleanup_expired_sessions, run as the
\* coroutine it is
NextSweep ==
    \/ \E t \in Clients, c \in DbCameras : StartStream(t, c) /\ UNCHANGED <<webrtcVars, spVars, cmVars, pipeVars, cacheVars>>
    \/ \E t \in Clients : StartCheck(t) /\ UNCHANGED <<webrtcVars, spVars, cmVars, pipeVars, cacheVars>>
    \/ \E t \in Clients : StartSpawn(t) /\ UNCHANGED <<webrtcVars, spVars, cmVars, pipeVars, cacheVars>>
    \/ \E t \in Clients : StartWake(t) /\ UNCHANGED <<webrtcVars, spVars, cmVars, pipeVars, cacheVars>>
    \/ \E t \in Clients : Respond(t) /\ UNCHANGED <<webrtcVars, spVars, cmVars, pipeVars, cacheVars>>
    \/ \E t \in Clients \cup {Sweeper} : CleanupWake(t) /\ UNCHANGED <<webrtcVars, spVars, cmVars, pipeVars, cacheVars>>
    \/ \E s \in SessionIds : PlaylistWritten(s) /\ UNCHANGED <<webrtcVars, spVars, cmVars, pipeVars, cacheVars>>
    \/ \E s \in SessionIds : ProcessExits(s) /\ UNCHANGED <<webrtcVars, spVars, cmVars, pipeVars, cacheVars>>
    \/ \E s \in SessionIds : Keepalive(s) /\ UNCHANGED <<webrtcVars, spVars, cmVars, pipeVars, cacheVars>>
    \/ \E s \in SessionIds : StreamStatus(s) /\ UNCHANGED <<webrtcVars, spVars, cmVars, pipeVars, cacheVars>>
    \/ Tick /\ UNCHANGED <<webrtcVars, spVars, cmVars, pipeVars, cacheVars>>
    \/ SweepWake /\ UNCHANGED <<webrtcVars, spVars, cmVars, pipeVars, cacheVars>>
    \/ SweepNext /\ UNCHANGED <<webrtcVars, spVars, cmVars, pipeVars, cacheVars>>

SpecSweep == Init /\ [][NextSweep]_vars

\* the application after startup_event: the handlers of one client, the
\* transcoders and read_ffmpeg_output.  start_cleanup_task creates no task, so
\* cleanup_expired_sessions takes no step here.
HandlerStep(t) ==
    \/ StartCheck(t)
    \/ StartSpawn(t)
    \/ StartWake(t)
    \/ CleanupWake(t)
    \/ Respond(t)

NextHlsRunning ==
    \/ StartupEvent /\ UNCHANGED <<webrtcVars, spVars, cmVars, pipeVars, cacheVars>>
    \/ \E t \in Clients, c \in DbCameras :
           startup_done /\ StartStream(t, c) /\ UNCHANGED <<webrtcVars, spVars, cmVars, pipeVars, cacheVars>>
    \/ \E t \in Clients : HandlerStep(t) /\ UNCHANGED <<webrtcVars, spVars, cmVars, pipeVars, cacheVars>>
    \/ \E s \in SessionIds : PlaylistWritten(s) /\ UNCHANGED <<webrtcVars, spVars, cmVars, pipeVars, cacheVars>>
    \/ \E s \in SessionIds : ProcessExits(s) /\ UNCHANGED <<webrtcVars, spVars, cmVars, pipeVars, cacheVars>>
    \/ \E s \in SessionIds : ReadFfmpegOutput(s) /\ UNCHANGED <<webrtcVars, spVars, cmVars, pipeVars, cacheVars>>
    \/ \E s \in SessionIds :
           startup_done /\ Keepalive(s) /\ UNCHANGED <<webrtcVars, spVars, cmVars, pipeVars, cacheVars>>
    \/ \E s \in SessionIds :
           startup_done /\ StreamStatus(s) /\ UNCHANGED <<webrtcVars, spVars, cmVars, pipeVars, cacheVars>>
    \/ Tick /\ UNCHANGED <<webrtcVars, spVars, cmVars, pipeVars, cacheVars>>

\* the event loop runs every task that is ready and the clock advances;
\* requests and the transcoder's own exit are up to the environment
FairHlsRunning ==
    /\ WF_vars(StartupEvent /\ UNCHANGED <<webrtcVars, spVars, cmVars, pipeVars, cacheVars>>)
    /\ WF_vars(Tick /\ UNCHANGED <<webrtcVars, spVars, cmVars, pipeVars, cacheVars>>)
    /\ \A t \in Clients :
           WF_vars(HandlerStep(t) /\ UNCHANGED <<webrtcVars, spVars, cmVars, pipeVars, cacheVars>>)
    /\ \A s \in SessionIds :
           WF_vars(ReadFfmpegOutput(s) /\ UNCHANGED <<webrtcVars, spVars, cmVars, pipeVars, cacheVars>>)

SpecHlsRunning == Init /\ [][NextHlsRunning]_vars /\ FairHlsRunning

NextWebRTC ==
    \/ \E c \in ViewedCameras :
           next_pc <= MaxPcs /\ CreatePeerConnection(c) /\ UNCHANGED <<hlsVars, spVars, cmVars, pipeVars, cacheVars>>
    \/ \E p \in PcIds : EnsureReturns(p) /\ UNCHANGED <<hlsVars, spVars, cmVars, pipeVars, cacheVars>>
    \/ \E p \in PcIds : EnsureRaises(p) /\ UNCHANGED <<hlsVars, spVars, cmVars, pipeVars, cacheVars>>
    \/ \E p \in PcIds : PcFails(p) /\ UNCHANGED <<hlsVars, spVars, cmVars, pipeVars, cacheVars>>
    \/ \E p \in PcIds : CloseStart(p) /\ UNCHANGED <<hlsVars, spVars, cmVars, pipeVars, cacheVars>>
    \/ \E p \in PcIds : CloseFinish(p) /\ UNCHANGED <<hlsVars, spVars, cmVars, pipeVars, cacheVars>>
    \/ CleanupResources /\ UNCHANGED <<hlsVars, spVars, cmVars, pipeVars, cacheVars>>

SpecWebRTC == Init /\ [][NextWebRTC]_vars

\* the viewers of one camera, as many as take it to its limit and beyond;
\* connections are closed by create_peer_connection only
NextLimit ==
    \/ next_pc <= MaxViewers /\ CreatePeerConnection(1) /\ UNCHANGED <<hlsVars, spVars, cmVars, pipeVars, cacheVars>>
    \/ \E p \in PcIds : EnsureReturns(p) /\ UNCHANGED <<hlsVars, spVars, cmVars, pipeVars, cacheVars>>
    \/ \E p \in PcIds : CreateLocked(p) /\ UNCHANGED <<hlsVars, spVars, cmVars, pipeVars, cacheVars>>
    \/ \E p \in PcIds : OldestClosed(p) /\ UNCHANGED <<hlsVars, spVars, cmVars, pipeVars, cacheVars>>
    \/ \E p \in PcIds : TrackLocked(p) /\ UNCHANGED <<hlsVars, spVars, cmVars, pipeVars, cacheVars>>
    \/ \E p \in PcIds : CloseStart(p) /\ UNCHANGED <<hlsVars, spVars, cmVars, pipeVars, cacheVars>>
    \/ \E p \in PcIds : CloseFinish(p) /\ UNCHANGED <<hlsVars, spVars, cmVars, pipeVars, cacheVars>>
    \/ \E p \in PcIds : CloseLocked(p) /\ UNCHANGED <<hlsVars, spVars, cmVars, pipeVars, cacheVars>>

SpecLimit == Init /\ [][NextLimit]_vars

\* one connection of a processor, its queues and its processing loop; a
\* start_processing() is followed when the loop of the start before has ended
NextQueue ==
    \/ \E opened \in BOOLEAN : Connect(opened) /\ UNCHANGED <<hlsVars, webrtcVars, cmVars, pipeVars, cacheVars>>
    \/ Disconnect /\ UNCHANGED <<hlsVars, webrtcVars, cmVars, pipeVars, cacheVars>>
    \/ DisconnectJoinTimeout /\ UNCHANGED <<hlsVars, webrtcVars, cmVars, pipeVars, cacheVars>>
    \/ DisconnectEnd /\ UNCHANGED <<hlsVars, webrtcVars, cmVars, pipeVars, cacheVars>>
    \/ CaptureTop /\ UNCHANGED <<hlsVars, webrtcVars, cmVars, pipeVars, cacheVars>>
    \/ CaptureReadOk /\ UNCHANGED <<hlsVars, webrtcVars, cmVars, pipeVars, cacheVars>>
    \/ CapturePush /\ UNCHANGED <<hlsVars, webrtcVars, cmVars, pipeVars, cacheVars>>
    \/ CaptureDrop /\ UNCHANGED <<hlsVars, webrtcVars, cmVars, pipeVars, cacheVars>>
    \/ CapturePut /\ UNCHANGED <<hlsVars, webrtcVars, cmVars, pipeVars, cacheVars>>
    \/ ~ProcessTaskAlive /\ StartProcessing
          /\ UNCHANGED <<hlsVars, webrtcVars, cmVars, pipeVars, cacheVars>>
    \/ ProcessGet /\ UNCHANGED <<hlsVars, webrtcVars, cmVars, pipeVars, cacheVars>>
    \/ ProcessPush /\ UNCHANGED <<hlsVars, webrtcVars, cmVars, pipeVars, cacheVars>>
    \/ StopProcessing /\ UNCHANGED <<hlsVars, webrtcVars, cmVars, pipeVars, cacheVars>>

SpecQueue == Init /\ [][NextQueue]_vars

\* the processing loop with detectors that may fail; the capture thread
\* keeps at most MaxWaiting frames ahead of it, and a start_processing() is
\* followed when the loop of the start before has ended
NextPipeline ==
    \/ Connect(TRUE) /\ UNCHANGED <<hlsVars, webrtcVars, cmVars, pipeVars, cacheVars>>
    \/ CaptureTop /\ UNCHANGED <<hlsVars, webrtcVars, cmVars, pipeVars, cacheVars>>
    \/ Len(raw_frame_queue) < MaxWaiting /\ CaptureReadOk
           /\ UNCHANGED <<hlsVars, webrtcVars, cmVars, pipeVars, cacheVars>>
    \/ CapturePush /\ UNCHANGED <<hlsVars, webrtcVars, cmVars, pipeVars, cacheVars>>
    \/ ~ProcessTaskAlive /\ StartProcessing
          /\ UNCHANGED <<hlsVars, webrtcVars, cmVars, pipeVars, cacheVars>>
    \/ ProcessGet /\ UNCHANGED <<hlsVars, webrtcVars, cmVars, pipeVars, cacheVars>>
    \/ \E failure \in Failures :
           ProcessFrame(failure) /\ UNCHANGED <<hlsVars, webrtcVars, cmVars, cacheVars>>
    \/ StopProcessing /\ UNCHANGED <<hlsVars, webrtcVars, cmVars, pipeVars, cacheVars>>

SpecPipeline == Init /\ [][NextPipeline]_vars

NextCache ==
    \/ \E r \in Requests, c \in SnapshotCameras, high_quality \in BOOLEAN :
           GetJpegFrame(r, c, high_quality) /\ UNCHANGED <<hlsVars, webrtcVars, spVars, cmVars, pipeVars>>
    \/ \E r \in Requests, connected \in BOOLEAN :
           JpegAfterEnsure(r, connected) /\ UNCHANGED <<hlsVars, webrtcVars, spVars, cmVars, pipeVars>>
    \/ \E r \in Requests, connected \in BOOLEAN :
           JpegAfterGetFrame(r, connected) /\ UNCHANGED <<hlsVars, webrtcVars, spVars, cmVars, pipeVars>>
    \/ \E c \in SnapshotCameras :
           NewLatestFrame(c) /\ UNCHANGED <<hlsVars, webrtcVars, spVars, cmVars, pipeVars>>
    \/ ClockTick /\ UNCHANGED <<hlsVars, webrtcVars, spVars, cmVars, pipeVars>>

SpecCache == Init /\ [][NextCache]_vars

NextReconnect ==
    \/ \E opened \in BOOLEAN : Connect(opened) /\ UNCHANGED <<hlsVars, webrtcVars, cmVars, pipeVars, cacheVars>>
    \/ CaptureTop /\ UNCHANGED <<hlsVars, webrtcVars, cmVars, pipeVars, cacheVars>>
    \/ CaptureReadFails /\ UNCHANGED <<hlsVars, webrtcVars, cmVars, pipeVars, cacheVars>>
    \/ AttemptDisconnect /\ UNCHANGED <<hlsVars, webrtcVars, cmVars, pipeVars, cacheVars>>
    \/ DisconnectJoinTimeout /\ UNCHANGED <<hlsVars, webrtcVars, cmVars, pipeVars, cacheVars>>
    \/ DisconnectEnd /\ UNCHANGED <<hlsVars, webrtcVars, cmVars, pipeVars, cacheVars>>
    \/ \E opened \in BOOLEAN : AttemptConnect(opened)
                                   /\ UNCHANGED <<hlsVars, webrtcVars, cmVars, pipeVars, cacheVars>>
    \/ AttemptFinally /\ UNCHANGED <<hlsVars, webrtcVars, cmVars, pipeVars, cacheVars>>
    \/ EarlierCaptureExit /\ UNCHANGED <<hlsVars, webrtcVars, cmVars, pipeVars, cacheVars>>

SpecReconnect == Init /\ [][NextReconnect]_vars

\* the capture thread is an operating-system thread and _attempt_reconnect a
\* task of the running event loop: each takes its next step when it can
FairReconnect ==
    /\ WF_vars((CaptureTop \/ CaptureReadFails \/ EarlierCaptureExit)
                   /\ UNCHANGED <<hlsVars, webrtcVars, cmVars, pipeVars, cacheVars>>)
    /\ WF_vars((AttemptDisconnect \/ DisconnectJoinTimeout \/ DisconnectEnd
                    \/ AttemptFinally \/ \E opened \in BOOLEAN : AttemptConnect(opened))
                   /\ UNCHANGED <<hlsVars, webrtcVars, cmVars, pipeVars, cacheVars>>)

SpecReconnectLive == Init /\ [][NextReconnect]_vars /\ FairReconnect

\* the life of one processor whose camera delivers no frame: clients connect,
\* disconnect, start and stop processing any number of times while the
\* capture thread fails to read and reconnects are attempted
NextLifecycle ==
    \/ \E opened \in BOOLEAN : Connect(opened)
          /\ UNCHANGED <<hlsVars, webrtcVars, cmVars, pipeVars, cacheVars>>
    \/ \E opened \in BOOLEAN : ConnectAgain(opened)
          /\ UNCHANGED <<hlsVars, webrtcVars, cmVars, pipeVars, cacheVars>>
    \/ Disconnect
          /\ UNCHANGED <<hlsVars, webrtcVars, cmVars, pipeVars, cacheVars>>
    \/ DisconnectJoinTimeout
          /\ UNCHANGED <<hlsVars, webrtcVars, cmVars, pipeVars, cacheVars>>
    \/ DisconnectEnd
          /\ UNCHANGED <<hlsVars, webrtcVars, cmVars, pipeVars, cacheVars>>
    \/ CaptureTop
          /\ UNCHANGED <<hlsVars, webrtcVars, cmVars, pipeVars, cacheVars>>
    \/ CaptureReadFails
          /\ UNCHANGED <<hlsVars, webrtcVars, cmVars, pipeVars, cacheVars>>
    \/ EarlierCaptureExit
          /\ UNCHANGED <<hlsVars, webrtcVars, cmVars, pipeVars, cacheVars>>
    \/ StartProcessing
          /\ UNCHANGED <<hlsVars, webrtcVars, cmVars, pipeVars, cacheVars>>
    \/ ProcessGet
          /\ UNCHANGED <<hlsVars, webrtcVars, cmVars, pipeVars, cacheVars>>
    \/ EarlierProcessExit
          /\ UNCHANGED <<hlsVars, webrtcVars, cmVars, pipeVars, cacheVars>>
    \/ StopProcessing
          /\ UNCHANGED <<hlsVars, webrtcVars, cmVars, pipeVars, cacheVars>>
    \/ AttemptDisconnect
          /\ UNCHANGED <<hlsVars, webrtcVars, cmVars, pipeVars, cacheVars>>
    \/ \E opened \in BOOLEAN : AttemptConnect(opened)
          /\ UNCHANGED <<hlsVars, webrtcVars, cmVars, pipeVars, cacheVars>>
    \/ AttemptFinally
          /\ UNCHANGED <<hlsVars, webrtcVars, cmVars, pipeVars, cacheVars>>

SpecLifecycle == Init /\ [][NextLifecycle]_vars

\* the same life where the capture thread and _attempt_reconnect take their
\* next step when they can; what the clients do is up to them
SpecLifecycleLive == Init /\ [][NextLifecycle]_vars /\ FairReconnect

NextCamera ==
    \/ MonitorWake /\ UNCHANGED <<hlsVars, webrtcVars, spVars, pipeVars, cacheVars>>
    \/ MonitorEvict /\ UNCHANGED <<hlsVars, webrtcVars, spVars, pipeVars, cacheVars>>
    \/ \E success \in BOOLEAN : MonitorEnsure(success)
                                    /\ UNCHANGED <<hlsVars, webrtcVars, spVars, pipeVars, cacheVars>>
    \/ MonitorCleanup /\ UNCHANGED <<hlsVars, webrtcVars, spVars, pipeVars, cacheVars>>
    \/ \E k \in Viewers : EnsureCameraConnected(k, Viewed(k))
                                    /\ UNCHANGED <<hlsVars, webrtcVars, spVars, pipeVars, cacheVars>>
    \/ \E k \in Viewers : EnsureAfterDb(k) /\ UNCHANGED <<hlsVars, webrtcVars, spVars, pipeVars, cacheVars>>
    \/ \E k \in Viewers : EnsureAfterTask(k) /\ UNCHANGED <<hlsVars, webrtcVars, spVars, pipeVars, cacheVars>>
    \/ \E k \in Callers : AddCameraLockAcquired(k) /\ UNCHANGED <<hlsVars, webrtcVars, spVars, pipeVars, cacheVars>>
    \/ \E c \in CameraIds, success \in BOOLEAN : ConnectCamera(c, success)
                                    /\ UNCHANGED <<hlsVars, webrtcVars, spVars, pipeVars, cacheVars>>
    \/ \E k \in Callers : AddCameraAfterTask(k) /\ UNCHANGED <<hlsVars, webrtcVars, spVars, pipeVars, cacheVars>>
    \/ \E k \in Callers : AddCameraAfterTaskWait(k) /\ UNCHANGED <<hlsVars, webrtcVars, spVars, pipeVars, cacheVars>>
    \/ \E k \in Callers, success \in BOOLEAN : AddCameraAfterConnect(k, success)
                                    /\ UNCHANGED <<hlsVars, webrtcVars, spVars, pipeVars, cacheVars>>
    \/ RemoveCameraLockAcquired("monitor") /\ UNCHANGED <<hlsVars, webrtcVars, spVars, pipeVars, cacheVars>>
    \/ RemoveCameraAfterCancel("monitor") /\ UNCHANGED <<hlsVars, webrtcVars, spVars, pipeVars, cacheVars>>
    \/ \E c \in DisabledCameras : DisableCamera(c) /\ UNCHANGED <<hlsVars, webrtcVars, spVars, pipeVars, cacheVars>>

SpecCamera == Init /\ [][NextCamera]_vars

\* viewers of one live stream and the manager: the monitor keeps cameras
\* running, peer connections are created for the first camera that stays
\* enabled, fail and are closed by their handlers and by the sweep
WatchedCamera ==
    CHOOSE c \in CameraIds \ DisabledCameras :
        \A d \in CameraIds \ DisabledCameras : c <= d

NextViewers ==
    \/ MonitorWake
          /\ UNCHANGED <<hlsVars, webrtcVars, spVars, pipeVars, cacheVars>>
    \/ MonitorEvict
          /\ UNCHANGED <<hlsVars, webrtcVars, spVars, pipeVars, cacheVars>>
    \/ \E success \in BOOLEAN : MonitorEnsure(success)
          /\ UNCHANGED <<hlsVars, webrtcVars, spVars, pipeVars, cacheVars>>
    \/ MonitorCleanup
          /\ UNCHANGED <<hlsVars, webrtcVars, spVars, pipeVars, cacheVars>>
    \/ \E c \in CameraIds, success \in BOOLEAN : ConnectCamera(c, success)
          /\ UNCHANGED <<hlsVars, webrtcVars, spVars, pipeVars, cacheVars>>
    \/ AddCameraAfterTask("monitor")
          /\ UNCHANGED <<hlsVars, webrtcVars, spVars, pipeVars, cacheVars>>
    \/ next_pc <= MaxOffers /\ CreatePeerConnection(WatchedCamera)
          /\ UNCHANGED <<hlsVars, spVars, cmVars, pipeVars, cacheVars>>
    \/ \E p \in PcIds : ViewerEnsured(p)
          /\ UNCHANGED <<hlsVars, spVars, pipeVars, cacheVars>>
    \/ \E p \in PcIds : PcFails(p)
          /\ UNCHANGED <<hlsVars, spVars, cmVars, pipeVars, cacheVars>>
    \/ \E p \in PcIds : CloseStart(p)
          /\ UNCHANGED <<hlsVars, spVars, cmVars, pipeVars, cacheVars>>
    \/ \E p \in PcIds : CloseFinish(p)
          /\ UNCHANGED <<hlsVars, spVars, cmVars, pipeVars, cacheVars>>
    \/ CleanupResources
          /\ UNCHANGED <<hlsVars, spVars, cmVars, pipeVars, cacheVars>>

\* the monitor and the close handlers are tasks of the running event loop,
\* and ensure_camera_connected returns to the create_peer_connection that
\* awaits it; viewers' offers and connection failures are up to the
\* environment
FairViewers ==
    /\ WF_vars((MonitorWake \/ MonitorEvict \/ MonitorCleanup
                    \/ AddCameraAfterTask("monitor")
                    \/ \E success \in BOOLEAN : MonitorEnsure(success)
                    \/ \E c \in CameraIds, connected \in BOOLEAN :
                           ConnectCamera(c, connected))
                   /\ UNCHANGED <<hlsVars, webrtcVars, spVars, pipeVars, cacheVars>>)
    /\ \A p \in PcIds :
           WF_vars((CloseStart(p) \/ CloseFinish(p))
                       /\ UNCHANGED <<hlsVars, spVars, cmVars, pipeVars, cacheVars>>)
    /\ \A p \in PcIds :
           WF_vars(ViewerEnsured(p)
                       /\ UNCHANGED <<hlsVars, spVars, pipeVars, cacheVars>>)
    /\ WF_vars(CleanupResources
                   /\ UNCHANGED <<hlsVars, spVars, cmVars, pipeVars, cacheVars>>)

SpecViewers == Init /\ [][NextViewers]_vars /\ FairViewers

\* the manager under every operation that moves the count of active
\* cameras: the monitor, a viewer who marks a camera in use and releases
\* it, and a client of the API who updates and removes that camera
Viewer == "viewer1"
ApiClient == "viewer2"

\* the viewer and the client are followed while active_cameras is no
\* further than MaxDrift - 1 outside the range from 0 to the budget
WithinDrift ==
    /\ camera_manager.active_cameras > 0 - MaxDrift
    /\ camera_manager.active_cameras < max_cameras + MaxDrift

NextScheduler ==
    \/ MonitorWake
          /\ UNCHANGED <<hlsVars, webrtcVars, spVars, pipeVars, cacheVars>>
    \/ MonitorEvict
          /\ UNCHANGED <<hlsVars, webrtcVars, spVars, pipeVars, cacheVars>>
    \/ \E success \in BOOLEAN : MonitorEnsure(success)
          /\ UNCHANGED <<hlsVars, webrtcVars, spVars, pipeVars, cacheVars>>
    \/ MonitorCleanup
          /\ UNCHANGED <<hlsVars, webrtcVars, spVars, pipeVars, cacheVars>>
    \/ WithinDrift /\ EnsureCameraConnected(Viewer, WatchedCamera)
          /\ UNCHANGED <<hlsVars, webrtcVars, spVars, pipeVars, cacheVars>>
    \/ EnsureAfterDb(Viewer)
          /\ UNCHANGED <<hlsVars, webrtcVars, spVars, pipeVars, cacheVars>>
    \/ EnsureAfterTask(Viewer)
          /\ UNCHANGED <<hlsVars, webrtcVars, spVars, pipeVars, cacheVars>>
    \/ WithinDrift /\ ReleaseCamera(WatchedCamera)
          /\ UNCHANGED <<hlsVars, webrtcVars, spVars, pipeVars, cacheVars>>
    \/ WithinDrift /\ UpdateCamera(ApiClient, WatchedCamera)
          /\ UNCHANGED <<hlsVars, webrtcVars, spVars, pipeVars, cacheVars>>
    \/ WithinDrift /\ ClientRemoveCamera(ApiClient, WatchedCamera)
          /\ UNCHANGED <<hlsVars, webrtcVars, spVars, pipeVars, cacheVars>>
    \/ \E k \in Callers : AddCameraLockAcquired(k)
          /\ UNCHANGED <<hlsVars, webrtcVars, spVars, pipeVars, cacheVars>>
    \/ \E c \in CameraIds, success \in BOOLEAN : ConnectCamera(c, success)
          /\ UNCHANGED <<hlsVars, webrtcVars, spVars, pipeVars, cacheVars>>
    \/ \E k \in Callers : AddCameraAfterTask(k)
          /\ UNCHANGED <<hlsVars, webrtcVars, spVars, pipeVars, cacheVars>>
    \/ \E k \in Callers : AddCameraAfterTaskWait(k)
          /\ UNCHANGED <<hlsVars, webrtcVars, spVars, pipeVars, cacheVars>>
    \/ \E k \in Callers, success \in BOOLEAN : AddCameraAfterConnect(k, success)
          /\ UNCHANGED <<hlsVars, webrtcVars, spVars, pipeVars, cacheVars>>
    \/ \E k \in Callers : RemoveCameraLockAcquired(k)
          /\ UNCHANGED <<hlsVars, webrtcVars, spVars, pipeVars, cacheVars>>
    \/ \E k \in Callers : RemoveCameraAfterCancel(k)
          /\ UNCHANGED <<hlsVars, webrtcVars, spVars, pipeVars, cacheVars>>

SpecScheduler == Init /\ [][NextScheduler]_vars

\* the manager, one viewer and the shutdown of the application.  The event
\* loop runs every task that is ready, asyncio.Lock wakes its waiters in
\* turn, a caller whose awaited task has ended is woken whatever task is
\* created for the camera afterwards, and every connection attempt ends; when
\* the viewer asks and when the application shuts down is up to the environment
NextShutdown ==
    \/ MonitorWake /\ UNCHANGED <<hlsVars, webrtcVars, spVars, pipeVars, cacheVars>>
    \/ MonitorEvict /\ UNCHANGED <<hlsVars, webrtcVars, spVars, pipeVars, cacheVars>>
    \/ \E success \in BOOLEAN : MonitorEnsure(success)
                                    /\ UNCHANGED <<hlsVars, webrtcVars, spVars, pipeVars, cacheVars>>
    \/ MonitorCleanup /\ UNCHANGED <<hlsVars, webrtcVars, spVars, pipeVars, cacheVars>>
    \/ EnsureCameraConnected(Viewer, Viewed(Viewer))
                                    /\ UNCHANGED <<hlsVars, webrtcVars, spVars, pipeVars, cacheVars>>
    \/ EnsureAfterDb(Viewer) /\ UNCHANGED <<hlsVars, webrtcVars, spVars, pipeVars, cacheVars>>
    \/ EnsureAfterTask(Viewer) /\ UNCHANGED <<hlsVars, webrtcVars, spVars, pipeVars, cacheVars>>
    \/ \E k \in {"monitor", Viewer} : AddCameraLockAcquired(k) /\ UNCHANGED <<hlsVars, webrtcVars, spVars, pipeVars, cacheVars>>
    \/ \E c \in CameraIds, success \in BOOLEAN : ConnectCamera(c, success)
                                    /\ UNCHANGED <<hlsVars, webrtcVars, spVars, pipeVars, cacheVars>>
    \/ \E k \in {"monitor", Viewer} : AddCameraAfterTask(k) /\ UNCHANGED <<hlsVars, webrtcVars, spVars, pipeVars, cacheVars>>
    \/ \E k \in {"monitor", Viewer}, success \in BOOLEAN : AddCameraAfterConnect(k, success)
                                    /\ UNCHANGED <<hlsVars, webrtcVars, spVars, pipeVars, cacheVars>>
    \/ RemoveCameraLockAcquired("monitor") /\ UNCHANGED <<hlsVars, webrtcVars, spVars, pipeVars, cacheVars>>
    \/ RemoveCameraAfterCancel("monitor") /\ UNCHANGED <<hlsVars, webrtcVars, spVars, pipeVars, cacheVars>>
    \/ \E c \in DisabledCameras : DisableCamera(c) /\ UNCHANGED <<hlsVars, webrtcVars, spVars, pipeVars, cacheVars>>
    \/ Shutdown /\ UNCHANGED <<hlsVars, webrtcVars, spVars, pipeVars, cacheVars>>
    \/ ShutdownAfterMonitor /\ UNCHANGED <<hlsVars, webrtcVars, spVars, pipeVars, cacheVars>>
    \/ ShutdownLockAcquired /\ UNCHANGED <<hlsVars, webrtcVars, spVars, pipeVars, cacheVars>>
    \/ ShutdownFinish /\ UNCHANGED <<hlsVars, webrtcVars, spVars, pipeVars, cacheVars>>

\* a step of the monitor task
MonitorStep ==
    \/ MonitorWake
    \/ MonitorEvict
    \/ \E success \in BOOLEAN : MonitorEnsure(success)
    \/ MonitorCleanup

\* caller k takes the lock it waits for
LockAcquired(k) ==
    \/ AddCameraLockAcquired(k)
    \/ RemoveCameraLockAcquired(k)
    \/ k = ShutdownCaller /\ ShutdownLockAcquired

\* caller k resumes after the task, the connect or the lookup it awaited
Resumes(k) ==
    \/ AddCameraAfterTask(k)
    \/ AddCameraAfterTaskWait(k)
    \/ \E connected \in BOOLEAN : AddCameraAfterConnect(k, connected)
    \/ RemoveCameraAfterCancel(k)
    \/ EnsureAfterDb(k)
    \/ EnsureAfterTask(k)
    \/ k = ShutdownCaller /\ (ShutdownAfterMonitor \/ ShutdownFinish)

FairShutdown ==
    /\ WF_vars(MonitorStep /\ UNCHANGED <<hlsVars, webrtcVars, spVars, pipeVars, cacheVars>>)
    /\ \A c \in CameraIds :
           WF_vars((\E opened \in BOOLEAN : ConnectCamera(c, opened))
                       /\ UNCHANGED <<hlsVars, webrtcVars, spVars, pipeVars, cacheVars>>)
    /\ \A k \in {"monitor", Viewer, ShutdownCaller} :
           /\ SF_vars(LockAcquired(k) /\ UNCHANGED <<hlsVars, webrtcVars, spVars, pipeVars, cacheVars>>)
           /\ SF_vars(Resumes(k) /\ UNCHANGED <<hlsVars, webrtcVars, spVars, pipeVars, cacheVars>>)

SpecShutdown == Init /\ [][NextShutdown]_vars /\ FairShutdown

\* the manager with one viewer, of the camera that comes last in the order of
\* the monitor
LastCamera == CHOOSE c \in CameraIds : \A d \in CameraIds : d <= c

NextAdmission ==
    \/ MonitorWake /\ UNCHANGED <<hlsVars, webrtcVars, spVars, pipeVars, cacheVars>>
    \/ MonitorEvict /\ UNCHANGED <<hlsVars, webrtcVars, spVars, pipeVars, cacheVars>>
    \/ \E success \in BOOLEAN : MonitorEnsure(success)
                                    /\ UNCHANGED <<hlsVars, webrtcVars, spVars, pipeVars, cacheVars>>
    \/ MonitorCleanup /\ UNCHANGED <<hlsVars, webrtcVars, spVars, pipeVars, cacheVars>>
    \/ EnsureCameraConnected("viewer1", LastCamera) /\ UNCHANGED <<hlsVars, webrtcVars, spVars, pipeVars, cacheVars>>
    \/ EnsureAfterDb("viewer1") /\ UNCHANGED <<hlsVars, webrtcVars, spVars, pipeVars, cacheVars>>
    \/ EnsureAfterTask("viewer1") /\ UNCHANGED <<hlsVars, webrtcVars, spVars, pipeVars, cacheVars>>
    \/ \E k \in Callers : AddCameraLockAcquired(k) /\ UNCHANGED <<hlsVars, webrtcVars, spVars, pipeVars, cacheVars>>
    \/ \E c \in CameraIds, success \in BOOLEAN : ConnectCamera(c, success)
                                    /\ UNCHANGED <<hlsVars, webrtcVars, spVars, pipeVars, cacheVars>>
    \/ \E k \in Callers : AddCameraAfterTask(k) /\ UNCHANGED <<hlsVars, webrtcVars, spVars, pipeVars, cacheVars>>
    \/ \E k \in Callers : AddCameraAfterTaskWait(k) /\ UNCHANGED <<hlsVars, webrtcVars, spVars, pipeVars, cacheVars>>
    \/ \E k \in Callers, success \in BOOLEAN : AddCameraAfterConnect(k, success)
                                    /\ UNCHANGED <<hlsVars, webrtcVars, spVars, pipeVars, cacheVars>>
    \/ RemoveCameraLockAcquired("monitor") /\ UNCHANGED <<hlsVars, webrtcVars, spVars, pipeVars, cacheVars>>
    \/ RemoveCameraAfterCancel("monitor") /\ UNCHANGED <<hlsVars, webrtcVars, spVars, pipeVars, cacheVars>>
    \/ \E c \in DisabledCameras : DisableCamera(c) /\ UNCHANGED <<hlsVars, webrtcVars, spVars, pipeVars, cacheVars>>

SpecAdmission == Init /\ [][NextAdmission]_vars

(***************************************************************************)
(* Properties of the HLS transcode sessions                                *)
(***************************************************************************)
\* sessions recorded for a camera whose ffmpeg process is registered and runs
ProcessBackedSessions(camera_id) ==
    {s \in DOMAIN hls_sessions :
        /\ hls_sessions[s].camera_id = camera_id
        /\ s \in active_processes
        /\ proc[s] = "running"}

\* C1: at no time do two subprocess-backed sessions exist for one camera
\* (two concurrent start requests for a camera spawn one process only).
C1_OneProcessPerCamera ==
    \A c \in DbCameras : Cardinality(ProcessBackedSessions(c)) <= 1

\* the start request t runs its reuse check in this step
StartCheckStep(t) ==
    /\ task[t].op = "start"
    /\ task[t].pc = "start_db"
    /\ task'[t].pc # "start_db"

\* an earlier start for the camera returned session s as a success, s is the
\* last session a process was spawned for on that camera, and s has not been
\* stopped
StartedAndNotStopped(camera_id, s) ==
    /\ s \in started_ok
    /\ s \in DOMAIN hls_sessions
    /\ hls_sessions[s].camera_id = camera_id
    /\ last_spawned[camera_id] = s

\* C2: a start request for a camera whose previous start returned session s
\* successfully, with no stop of s in between, returns s again, spawns no
\* process, allocates no session and leaves every session table as it was.
C2_SecondStartReturnsSameSession ==
    [][\A t \in Tasks : \A s \in SessionIds :
         (StartCheckStep(t) /\ StartedAndNotStopped(task[t].camera_id, s))
         => /\ task'[t].pc = "done"
            /\ task'[t].result = "reused"
            /\ task'[t].session_id = s
            /\ DOMAIN hls_sessions' = DOMAIN hls_sessions
            /\ UNCHANGED <<spawned, last_spawned, proc, next_session,
                           active_processes, camera_connections,
                           active_camera_streams>>]_vars

\* C2 witness: a second start has answered with the session of the first,
\* which is still the only session recorded for the camera
C2_Witness ==
    \E t \in Tasks : \E s \in SessionIds :
        /\ task[t].op = "start" /\ task[t].pc = "done"
        /\ task[t].result = "reused"
        /\ task[t].session_id = s
        /\ s \in playlists
        /\ StartedAndNotStopped(task[t].camera_id, s)
        /\ camera_connections[task[t].camera_id] = <<s>>
        /\ next_session = s + 1
        /\ \A u \in Tasks \ {t} : task[u].pc = "idle"

\* C10: once a start request has returned failure, its session is in none of
\* the tables, its directory is gone and its process is not running.
C10_FailedStartLeavesNothing ==
    \A t \in Tasks :
        (task[t].op = "start" /\ task[t].pc = "done" /\ task[t].result = "failed")
        => LET s == task[t].session_id IN
           /\ s \notin DOMAIN hls_sessions
           /\ s \notin active_processes
           /\ \A c \in DOMAIN active_camera_streams : active_camera_streams[c] # s
           /\ \A c \in DOMAIN camera_connections : ~InList(camera_connections[c], s)
           /\ s \notin session_dirs
           /\ proc[s] # "running"

\* C11: once a stop request on an existing session has returned, the
\* session is in none of the tables, its directory is gone and its process
\* is not running, whether or not the process obeyed the termination signal.
C11_StopLeavesNothing ==
    \A t \in Tasks :
        (task[t].op = "stop" /\ task[t].pc = "done" /\ task[t].result = "stopped")
        => LET s == task[t].session_id IN
           /\ s \notin DOMAIN hls_sessions
           /\ s \notin active_processes
           /\ \A c \in DOMAIN active_camera_streams : active_camera_streams[c] # s
           /\ \A c \in DOMAIN camera_connections : ~InList(camera_connections[c], s)
           /\ s \notin session_dirs
           /\ proc[s] # "running"

\* C12: after startup, a session whose last activity is older than the TTL
\* is eventually closed, unless a keepalive, status or start call touches it
\* again.
C12_ExpiredSessionEventuallyClosed ==
    \A s \in SessionIds :
        (startup_done /\ s \in DOMAIN hls_sessions
           /\ now - hls_sessions[s].last_activity > HLS_TTL)
        ~> (\/ s \notin DOMAIN hls_sessions
            \/ now - hls_sessions[s].last_activity <= HLS_TTL)

\* the sessions a step closes, and a step of the sweep
Closed == DOMAIN hls_sessions \ DOMAIN hls_sessions'
SweeperStep == \A t \in Tasks : task'[t] = task[t]
SweepAtTop == task[Sweeper].pc \in {"idle", "sweep_sleep"}

\* C13: the sweep lists, and closes, only sessions whose last activity is
\* older than the TTL at sweep time, the time at which the sweep reads the
\* clock and compares the ages (a session listed then is closed by that pass
\* even when it is touched while the pass waits on an earlier session);
\* keepalive, status and a start that reuses a session set the session's
\* last_activity to the current time and change no other field and no other
\* session.
C13_SweepSparesFreshSessions ==
    [][/\ SweepAtTop =>
              \A i \in 1..Len(task'[Sweeper].expired) :
                  LET x == task'[Sweeper].expired[i] IN
                  /\ x \in DOMAIN hls_sessions
                  /\ now - hls_sessions[x].last_activity > HLS_TTL
       /\ ~SweepAtTop =>
              \/ task'[Sweeper].expired = task[Sweeper].expired
              \/ task'[Sweeper].expired = Tail(task[Sweeper].expired)
              \/ task'[Sweeper].expired = <<>>
       /\ \A x \in Closed :
              SweeperStep =>
                  IF SweepAtTop
                  THEN now - hls_sessions[x].last_activity > HLS_TTL
                  ELSE x = Head(task[Sweeper].expired)
       /\ (Closed = {} /\ DOMAIN hls_sessions' = DOMAIN hls_sessions
             /\ hls_sessions' # hls_sessions) =>
              \E x \in DOMAIN hls_sessions :
                  hls_sessions' =
                      [hls_sessions EXCEPT ![x].last_activity = now]
       /\ \A t \in Tasks :
              (StartCheckStep(t) /\ task'[t].result = "reused") =>
                  hls_sessions'[task'[t].session_id].last_activity = now
      ]_vars

\* C13 witness: the sweep has closed a session that had expired, and a
\* later session, older than the TTL but touched since, is still there while
\* the sweep sleeps
C13_Witness ==
    /\ task[Sweeper] = SweeperAsleep
    /\ \E x \in started_ok : x \notin DOMAIN hls_sessions /\ proc[x] # "none"
    /\ \E x \in DOMAIN hls_sessions :
           /\ x \in started_ok
           /\ now - hls_sessions[x].start_time > HLS_TTL
           /\ now - hls_sessions[x].last_activity <= HLS_TTL

\* C14: when the process of an established session has exited on its own,
\* the session is eventually removed from the session, process and camera
\* tables.
C14_ExitedSessionEventuallyTornDown ==
    \A s \in SessionIds :
        (s \in started_ok /\ proc[s] = "exited" /\ s \in DOMAIN hls_sessions)
        ~> (/\ s \notin DOMAIN hls_sessions
            /\ s \notin active_processes
            /\ \A c \in DOMAIN active_camera_streams :
                   active_camera_streams[c] # s)

(***************************************************************************)
(* Properties of the WebRTC live sessions                                  *)
(***************************************************************************)
\* the sessions subscribed to a track, and those of them still open
Subscribers(tr) == {p \in PcIds : conn[p].track = tr}
OpenSessions(tr) == {p \in Subscribers(tr) : conn[p].state = "new"}
\* every session that subscribed has been closed by close_peer_connection
AllClosed(tr) ==
    /\ Subscribers(tr) # {}
    /\ \A p \in Subscribers(tr) : conn[p].handler = "done"

\* C3: a shared track is never stopped or removed while an open session
\* references it, and once its last session has closed it is stopped,
\* exactly once, rather than left running.
C3_TrackStoppedWithLastSession ==
    \A tr \in PcIds : track[tr].created =>
        /\ OpenSessions(tr) # {}
           => /\ track[tr].running
              /\ track[tr].camera \in DOMAIN camera_tracks
              /\ camera_tracks[track[tr].camera] = tr
        /\ AllClosed(tr)
           => /\ ~track[tr].running
              /\ track[tr].stop_calls = 1

\* C4: the reference count of a shared track equals the number of open
\* sessions bound to it, and the track is torn down exactly when it is zero.
C4_RefCountIsOpenSessions ==
    \A tr \in PcIds : track[tr].created =>
        /\ track[tr].ref_count = Cardinality(OpenSessions(tr))
        /\ track[tr].running <=> track[tr].ref_count > 0

\* C16: the connections listed for a camera never number more than
\* max_connections_per_camera, whatever the interleaving of the
\* create_peer_connection calls.
C16_SessionsWithinLimit ==
    \A c \in DOMAIN peer_connections :
        Len(peer_connections[c]) <= max_connections_per_camera

\* the running tracks of a camera that open sessions are subscribed to
ServingTracks(c) ==
    {tr \in PcIds : /\ track[tr].created
                    /\ track[tr].running
                    /\ track[tr].camera = c
                    /\ OpenSessions(tr) # {}}

\* C19: the open sessions of a camera are all subscribed to one track
\* instance, the only running track of the camera that has subscribers.
C19_OneTrackPerCamera ==
    \A c \in ViewedCameras :
        /\ Cardinality(ServingTracks(c)) <= 1
        /\ \A p, q \in PcIds :
               (/\ conn[p].camera = c /\ conn[q].camera = c
                /\ conn[p].state = "new" /\ conn[q].state = "new"
                /\ conn[p].step = "returned" /\ conn[q].step = "returned")
               => conn[p].track = conn[q].track

(***************************************************************************)
(* Properties of the frame queues                                          *)
(***************************************************************************)
QueuesBounded ==
    /\ Len(raw_frame_queue) <= maxsize
    /\ Len(processed_frame_queue) <= maxsize

\* the capture thread leaves the step it stands at
CaptureLeaves(at) == capture_thread.pc = at /\ capture_thread'.pc # at

\* the processing loop pushes the record it has produced
ProcessPushes == process_task.pc = "pipeline" /\ process_task'.pc = "ready"

\* a push onto the processed queue adds the record at the end and, on a
\* full queue, takes exactly the oldest record away
ProcessedPushDropsOldest ==
    ProcessPushes =>
        processed_frame_queue' =
            IF Len(processed_frame_queue) = maxsize
            THEN Append(Tail(processed_frame_queue), next_record)
            ELSE Append(processed_frame_queue, next_record)

\* the capture thread stands at a queue operation that cannot be taken
CaptureWaits ==
    \/ capture_thread.pc = "push" /\ ~ENABLED CapturePush
    \/ capture_thread.pc = "drop" /\ ~ENABLED CaptureDrop
    \/ capture_thread.pc = "put" /\ ~ENABLED CapturePut

C9_ReconnectGivesUp ==
    /\ Len(reconnect_delays) <= 3
    /\ reconnect_delays = SubSeq(<<2, 4, 8>>, 1, Len(reconnect_delays))
    /\ Len(reconnect_delays) = 3 => reconnect_task = "none" /\ ~sp.connected
    /\ (sp.reconnecting /\ reconnect_task = "none") => ~sp.connected

\* C15: on a connected camera get_latest_frame never returns a frame older
\* than a captured frame that waits in the raw queue.
C15_LatestFrameIsNewest ==
    (sp.connected /\ LoopFree) =>
        \A i \in 1..Len(raw_frame_queue) :
            GetLatestFrame >= raw_frame_queue[i]

(***************************************************************************)
(* Properties of the camera manager                                        *)
(***************************************************************************)
\* C5: the cameras that are processing and not in use never number more than
\* max_cameras, and an add_camera that ends while a slot is free, no
\* connection having failed, leaves its camera processing.
C5_ProcessingWithinBudget ==
    /\ Cardinality(Processing \ camera_manager.cameras_in_use) <= max_cameras
    /\ refused_add = 0

AddCameraEnds(k, pc) ==
    /\ call[k].op = "add"
    /\ call[k].pc = pc
    /\ call'[k] = NoCall

InFlight(c) ==
    \/ camera_manager.connection_tasks[c] = "pending"
    \/ \E k \in Callers : call[k] = [op |-> "add", camera_id |-> c,
                                     pc |-> "connect"]

\* a step starts a connection attempt for camera c: a connection task is
\* created, add_camera calls connect(), or the monitor calls connect() for a
\* registered camera that is not connected
StartsConnect(c) ==
    \/ /\ camera_manager.connection_tasks[c] # "pending"
       /\ camera_manager'.connection_tasks[c] = "pending"
    \/ \E k \in Callers :
          /\ call[k] # call'[k]
          /\ call'[k] = [op |-> "add", camera_id |-> c, pc |-> "connect"]
    \/ /\ monitor.pc \in {"priority", "regular"}
       /\ call["monitor"] = NoCall
       /\ monitor.todo # <<>>
       /\ monitor'.todo = Tail(monitor.todo)
       /\ Head(monitor.todo) = c
       /\ c \in Registered
       /\ ~camera_manager.processor[c].processing
       /\ ~camera_manager.processor[c].connected

FailedAdd(c) ==
    /\ c \in Registered
    /\ ~camera_manager.processor[c].connected
    /\ ~camera_manager.processor[c].processing
    /\ camera_manager.connection_tasks[c] # "pending"
    /\ \A k \in Callers : call[k].camera_id # c

\* the idle cameras of this tick that are not processing, in the order of
\* the tick, as far as the budget has room for them beside the cameras that
\* are processing
EligibleIdle ==
    LET waiting == SelectSeqIn(monitor.regular_cameras, CameraIds \ Processing)
        room == max_cameras - Cardinality(Processing)
        fits == IF room > 0 THEN SliceTo(waiting, room) ELSE <<>>
    IN  {fits[i] : i \in 1..Len(fits)}

SweptSessions(camera_id) ==
    SelectSeq(peer_connections[camera_id],
              LAMBDA p : conn[p].state \in {"closed", "failed"})

\* C24: a run of the sweep leaves every session it found failed or closed
\* closed and off its camera's list, and the camera's shared track has one
\* reference less for each of them.
C24_SweepClosesAndReleases ==
    [][CleanupResources =>
           \A c \in DOMAIN peer_connections :
               /\ \A i \in 1..Len(SweptSessions(c)) :
                      LET p == SweptSessions(c)[i]
                      IN  /\ conn'[p].state = "closed"
                          /\ \A j \in 1..Len(Listed(peer_connections', c)) :
                                 Listed(peer_connections', c)[j] # p
               /\ c \in DOMAIN camera_tracks =>
                      track'[camera_tracks[c]].ref_count =
                          track[camera_tracks[c]].ref_count
                              - Len(SweptSessions(c))]_vars

\* C25: the frame a tick of the processing loop takes is the newest frame
\* captured: no frame waiting in the raw queue at that moment is newer.
C25_TickTakesNewestFrame ==
    [][(process_task.pc = "ready" /\ process_task'.pc = "pipeline") =>
           \A i \in 1..Len(raw_frame_queue) :
               raw_frame_queue[i] <= process_task'.frame]_vars

\* C26: after every tick of the processing loop that produces a record, the
\* cached latest processed frame is the record just written to the processed
\* queue, also when the queue was full.
C26_LatestProcessedIsLastWritten ==
    [][(process_task.pc = "pipeline" /\ process_task'.pc = "ready") =>
           /\ processed_frame_queue' # <<>>
           /\ sp'.latest_processed_frame =
                  processed_frame_queue'[Len(processed_frame_queue')]]_vars

\* C27: a tick in which a detector fails still ends at the top of the loop
\* with the camera processing as before: the record it queues is the frame
\* without annotations, its results are empty, and the loop goes on.
C27_DetectorFailureIsContained ==
    [][(process_task.pc = "pipeline" /\ process_task'.pc # "pipeline"
            /\ pipeline_result'.error # "none") =>
           /\ pipeline_result'.annotations = {}
           /\ pipeline_result'.results = {}
           /\ processed_frame_queue' # <<>>
           /\ processed_frame_queue'[Len(processed_frame_queue')] = next_record
           /\ sp'.processed_from.newest = process_task.frame
           /\ process_task'.pc = "ready"
           /\ sp'.processing = sp.processing
           /\ sp'.connected = sp.connected]_vars

\* a detector failed after another had drawn on the frame, and the loop has
\* taken the next frame
C27_Witness ==
    /\ pipeline_result.error = "faces"
    /\ process_task.pc = "pipeline"
    /\ sp.processing
    /\ next_record > 1

\* C30: from the return of disconnect(), which has released the device
\* handle, until the next connect() the processor is neither connected nor
\* processing and both frame queues are empty.
C30_DisconnectedIsEmpty ==
    (LoopFree /\ sp.capture = "none") =>
        /\ ~sp.connected
        /\ ~sp.processing
        /\ raw_frame_queue = <<>>
        /\ processed_frame_queue = <<>>

(***************************************************************************)
(* Properties of get_jpeg_frame and the frame cache                         *)
(***************************************************************************)
\* a step of the get_jpeg_frame call of request r
JpegStep(r) == jpeg_call'[r] # jpeg_call[r]

CaptureWorkers == (IF CaptureThreadAlive THEN 1 ELSE 0) + sp.earlier_threads

\* C31: at most one capture worker is alive per camera across any sequence
\* of connect, disconnect and reconnect: a new capture worker is started
\* only after the previous one has terminated
C31_OneCaptureWorker == CaptureWorkers <= 1

\* _attempt_reconnect has been handed to the event loop and has not started
ReconnectTriggered == reconnect_task = "scheduled"

\* the connect() of _attempt_reconnect has returned True and the task is
\* about to end
ReconnectSucceeded == reconnect_task = "finally"

C36_ProcessingImpliesConnected == sp.processing => sp.connected

\* a disconnect() has lowered both flags while the processing loop it cuts
\* off is still in its loop
C36_Witness ==
    /\ disc.pc = "join"
    /\ ProcessTaskAlive
    /\ ~sp.processing
    /\ ~sp.connected

\* the _process_frames tasks of the processor that have not left their loop
ProcessLoops == (IF ProcessTaskAlive THEN 1 ELSE 0) + sp.earlier_tasks

\* C37: at most one processing loop is active per camera at any time, for
\* any sequence of start_processing, stop_processing, disconnect and
\* reconnect
C37_OneProcessingLoop == ProcessLoops <= 1

(***************************************************************************)
(* The manager: cameras in use and the count of active cameras              *)
(***************************************************************************)

\* this step ends the ensure_camera_connected of viewer k, suspended at one
\* of its awaits, with True: the connection task it awaited returned True,
\* or the add_camera it called for an unregistered camera returned True
\* (the camera had been registered meanwhile, or its new connection task
\* returned True)
EnsureReturnsTrue(k) ==
    LET camera_id == call[k].camera_id IN
    /\ call[k].op \in {"ensure", "add"}
    /\ call'[k] = NoCall
    /\ CASE call[k].pc \in {"task", "task_wait"} ->
                camera_manager.connection_tasks[camera_id] = "done_true"
         [] call[k].pc = "connect" -> TRUE
         [] call[k].pc = "lock" -> camera_id \in Registered
         [] call[k].pc = "db" ->
                camera_id \in Registered /\ camera_id \in enabled_cameras
         [] OTHER -> FALSE

NoViewerSession(camera_id) ==
    \A p \in PcIds :
        conn[p].camera = camera_id
            => /\ conn[p].state \in {"closed", "failed"}
               /\ p \notin {Listed(peer_connections, camera_id)[i] :
                                i \in 1..Len(Listed(peer_connections, camera_id))}

ManagerIdle ==
    /\ monitor.pc = "sleep"
    /\ \A k \in Callers : call[k] = NoCall
    /\ camera_manager.lock = "none"
    /\ \A c \in CameraIds : camera_manager.connection_tasks[c] # "pending"

StartReturnsSession(t, s) ==
    /\ task[t].pc # "done"
    /\ task'[t].pc = "done"
    /\ task'[t].op = "start"
    /\ task'[t].result \in {"ok", "reused"}
    /\ task'[t].session_id = s

\* a start_hls_stream that registered s has not yet seen its playlist
LaunchUnconfirmed(s) ==
    \E u \in Tasks : /\ task[u].op = "start"
                     /\ task[u].session_id = s
                     /\ task[u].pc \in {"start_sleep", "start_retry"}

\* a cleanup_process of s sleeps between terminate() and the deletions
TeardownInProgress(s) ==
    \E u \in Tasks \cup {Sweeper} : /\ task[u].pc = "cleanup_sleep"
                                    /\ task[u].session_id = s

\* C38: a session id that a start request returns as a success is neither
\* one whose launch is still waiting for its playlist nor one whose teardown
\* has begun
C38_ReturnedSessionIsEstablished ==
    [][\A t \in Tasks, s \in SessionIds :
           StartReturnsSession(t, s)
               => /\ ~LaunchUnconfirmed(s)'
                  /\ ~TeardownInProgress(s)']_vars

\* the cleanup_process that t awaits wakes from its sleep in this step
TeardownWakes(t) ==
    /\ task[t].pc = "cleanup_sleep"
    /\ task'[t] # task[t]

\* "del active_processes[session_id]" in the finally clause of t's
\* cleanup_process finds the key already deleted: KeyError
TeardownRaises(t) ==
    /\ task[t].pc = "cleanup_sleep"
    /\ task[t].session_id \notin active_processes

\* s is in none of the tables of hls.py
AbsentFromTables(s) ==
    /\ s \notin active_processes
    /\ s \notin DOMAIN hls_sessions
    /\ \A c \in DOMAIN active_camera_streams : active_camera_streams[c] # s
    /\ \A c \in DOMAIN camera_connections : ~InList(camera_connections[c], s)

\* every session but s stands in the tables as it did
OtherSessionsUnchanged(s) ==
    /\ active_processes' \ {s} = active_processes \ {s}
    /\ \A x \in (DOMAIN hls_sessions) \ {s} :
           x \in DOMAIN hls_sessions' /\ hls_sessions'[x] = hls_sessions[x]
    /\ \A c \in DOMAIN active_camera_streams :
           active_camera_streams[c] # s
               => /\ c \in DOMAIN active_camera_streams'
                  /\ active_camera_streams'[c] = active_camera_streams[c]

\* C39: whichever teardowns of a session run together, each of them ends
\* without raising, with the session in none of the tables and with the
\* other sessions as they were
C39_ConcurrentTeardownsComplete ==
    [][\A t \in Tasks \cup {Sweeper} :
           TeardownWakes(t)
               => /\ ~TeardownRaises(t)
                  /\ AbsentFromTables(task[t].session_id)'
                  /\ OtherSessionsUnchanged(task[t].session_id)]_vars

\* caller k is inside a call of the manager
OperationStarted(k) == call[k] # NoCall /\ call[k] # ShutdownReturned

====
